---- MODULE Spec2Model ----
(***************************************************************************)
(* Model of the ba-ndncert controller: the Aries agent controllers         *)
(* (controller/controller.py, controller_pkg/controller.py) and the        *)
(* two-agent session of controller_pkg/setup.py.                           *)
(*                                                                         *)
(* Every await of the code is one step.  A step that sends an HTTP request *)
(* appends the request and its outcome to `log`; the answering agent is    *)
(* modelled by `agent`, whose internal protocol steps are the Agent*       *)
(* actions.  Any request may fail at the transport (RequestFailed).        *)
(***************************************************************************)
EXTENDS Integers, Sequences, FiniteSets, TLC

VARIABLES
    prog,    \* which program runs: setup.py's main, a controller's main, or a single call on a controller
    pc,      \* the position of the single thread of control
    stack,   \* return positions of nested calls (get_did -> fetch_did -> register_did)
    did,     \* self.did of each controller
    sess,    \* client_session of each controller is open
    log,     \* the requests sent so far, with their outcomes
    loc,     \* local variables of the running operations
    err,     \* the failure the run ended with, or "none"
    ret,     \* the value the last operation returned
    steps,   \* the operations of Setup started and returned so far
    agent    \* the state of the remote agents and the ledger

vars == <<prog, pc, stack, did, sess, log, loc, err, ret, steps, agent>>

\* Number of identical consecutive requests the log records (the unbounded
\* polling loops repeat one request; the log keeps the first MaxPolls).
MaxPolls == 4

None == "none"
NoDid == 0

Ctl == {"server", "client"}

Last(s) == s[Len(s)]

\* The log with entry e added; a run of MaxPolls identical entries is not extended.
Record(l, e) ==
    IF Len(l) >= MaxPolls /\ \A i \in (Len(l) - MaxPolls + 1)..Len(l) : l[i] = e
    THEN l
    ELSE Append(l, e)

Req(c, op, rq, res) == [c |-> c, op |-> op, rq |-> rq, res |-> res]

\* The two controller programs: Controller.main of controller_pkg/controller.py
\* and of controller/controller.py.
Mains == {"pkg_main", "ctl_main"}

\* Where control goes when an exception leaves the running operation: the
\* finally block of the program's main, or the caller of the method.
Handler ==
    IF prog = "setup" THEN "m_close_server"
    ELSE IF prog \in Mains THEN "terminate"
    ELSE "returned"

\* raise: the exception unwinds every frame up to the handler of the program.
Raise(kind) ==
    /\ err' = kind
    /\ pc' = Handler
    /\ stack' = <<>>

\* return value: the operation returns v to the position on top of the stack.
Return(v) ==
    /\ ret' = v
    /\ pc' = Head(stack)
    /\ stack' = Tail(stack)

\* A failed request that is swallowed: the caller stays where it is and sends the request again.
Failed_retry(c, op, rq) ==
    /\ log' = Record(log, Req(c, op, rq, "fail"))
    /\ UNCHANGED <<prog, pc, stack, did, sess, loc, err, ret, steps, agent>>

\* A request that fails at the transport: admin_request raises, the caller does not catch.
Failed(c, op, rq) ==
    /\ log' = Record(log, Req(c, op, rq, "fail"))
    /\ Raise("RequestFailed")
    /\ UNCHANGED <<prog, did, sess, loc, ret, steps, agent>>

----------------------------------------------------------------------------
(* Connection state of the agents *)

ServerConnId == "S1"
ClientConnId == "C1"
ClientConnDid == "cdid"

\* GET /connections?their_did=X on the server agent: the connection is listed
\* once the holder's request has arrived.
Connections(a, their_did) ==
    IF a.conn \in {"request", "response"} /\ their_did = ClientConnDid
    THEN <<ServerConnId>>
    ELSE <<>>

\* has_connection without the test of the result list.
has_connection_any(results) == Len(results) >= 0

\* has_connection asking for more than one connection.
has_connection_two(results) == Len(results) > 1

\* return len(resp["results"]) > 0
has_connection(results) == Len(results) > 0

----------------------------------------------------------------------------
(* Setup.exchange_connection *)

ec_create_invitation ==
    /\ pc = "ec_create"
    /\ \/ /\ log' = Record(log, Req("server", "create_invitation", "POST /connections/create-invitation", "ok"))
          /\ agent' = [agent EXCEPT !.conn = "invitation"]
          /\ pc' = "ec_receive"
          /\ UNCHANGED <<prog, stack, did, sess, loc, err, ret, steps>>
       \/ Failed("server", "create_invitation", "POST /connections/create-invitation")

ec_receive_invitation ==
    /\ pc = "ec_receive"
    /\ \/ /\ log' = Record(log, Req("client", "receive_invitation", "POST /connections/receive-invitation", "ok"))
          /\ agent' = [agent EXCEPT !.cconn = "invitation"]
          /\ loc' = [loc EXCEPT !.client_connection_id = ClientConnId]
          /\ pc' = "ec_request"
          /\ UNCHANGED <<prog, stack, did, sess, err, ret, steps>>
       \/ Failed("client", "receive_invitation", "POST /connections/receive-invitation")

ec_request_connection ==
    /\ pc = "ec_request"
    /\ \/ /\ log' = Record(log, Req("client", "request_connection", "POST /connections/{id}/accept-invitation", "ok"))
          /\ agent' = [agent EXCEPT !.cconn = "request"]
          /\ loc' = [loc EXCEPT !.client_connection_did = ClientConnDid]
          /\ pc' = "ec_poll"
          /\ UNCHANGED <<prog, stack, did, sess, err, ret, steps>>
       \/ Failed("client", "request_connection", "POST /connections/{id}/accept-invitation")

\* An exchange_connection that asks once and accepts whatever the answer is.
ec_poll_once ==
    /\ pc = "ec_poll"
    /\ \/ LET results == Connections(agent, loc.client_connection_did) IN
          /\ log' = Record(log, Req("server", "has_connection", "GET /connections",
                                    IF Len(results) > 0 THEN "ok" ELSE "empty"))
          /\ pc' = "ac_get"
          /\ UNCHANGED <<prog, stack, did, sess, loc, err, ret, steps, agent>>
       \/ Failed("server", "has_connection", "GET /connections")

\* while not await self.server_controller.has_connection(...): sleep(1.0)
ec_poll ==
    /\ pc = "ec_poll"
    /\ \/ LET results == Connections(agent, loc.client_connection_did) IN
          /\ log' = Record(log, Req("server", "has_connection", "GET /connections",
                                    IF Len(results) > 0 THEN "ok" ELSE "empty"))
          /\ pc' = IF has_connection(results) THEN "ac_get" ELSE "ec_sleep"
          /\ UNCHANGED <<prog, stack, did, sess, loc, err, ret, steps, agent>>
       \/ Failed("server", "has_connection", "GET /connections")

ec_sleep ==
    /\ pc = "ec_sleep"
    /\ pc' = "ec_poll"
    /\ UNCHANGED <<prog, stack, did, sess, log, loc, err, ret, steps, agent>>

\* accept_connection_request: resolve the local connection id, then accept.
ac_get ==
    /\ pc = "ac_get"
    /\ \/ LET results == Connections(agent, loc.client_connection_did) IN
          /\ log' = Record(log, Req("server", "accept_connection_request", "GET /connections",
                                    IF Len(results) > 0 THEN "ok" ELSE "empty"))
          /\ IF Len(results) > 0
             THEN /\ loc' = [loc EXCEPT !.connection_id = results[1]]
                  /\ pc' = "ac_post"
                  /\ UNCHANGED <<stack, err>>
             ELSE /\ Raise("IndexError")        \* resp["results"][0]
                  /\ UNCHANGED loc
          /\ UNCHANGED <<prog, did, sess, ret, agent, steps>>
       \/ Failed("server", "accept_connection_request", "GET /connections")

\* The agent's answer to POST /connections/{connection_id}/accept-request.
AcceptRequestResponse(connection_id) == [connection_id |-> connection_id]

\* server_connection_id = resp["connection_id"]; return server_connection_id, client_connection_id
exchange_connection_result(resp, client_connection_id) ==
    <<resp.connection_id, client_connection_id>>

ac_post ==
    /\ pc = "ac_post"
    /\ \/ /\ log' = Record(log, Req("server", "accept_connection_request", "POST /connections/{id}/accept-request", "ok"))
          /\ agent' = [agent EXCEPT !.conn = "response"]
          /\ Return(exchange_connection_result(AcceptRequestResponse(loc.connection_id), loc.client_connection_id))
          /\ UNCHANGED <<prog, did, sess, loc, err, steps>>
       \/ Failed("server", "accept_connection_request", "POST /connections/{id}/accept-request")

\* The holder's connection request reaches the issuer agent.
AgentConnRequest ==
    /\ agent.cconn = "request" /\ agent.conn = "invitation"
    /\ agent' = [agent EXCEPT !.conn = "request"]
    /\ UNCHANGED <<prog, pc, stack, did, sess, log, loc, err, ret, steps>>


----------------------------------------------------------------------------
(* Schemas and credential definitions on the agent *)

\* The second name holds a space.
Names == {"demo", "my schema"}
Versions == {"1.0", "2.0"}
NoId == <<>>

Range(s) == {s[i] : i \in DOMAIN s}

\* GET /schemas/created?schema_name=N: the ids of the created schemas named N.
CreatedSchemas(a, name) ==
    LET named(id) == id[1] = name IN SelectSeq(a.schemas, named)

\* The agent's handling of POST /schemas: written at once (direct), or
\* handed to the endorser and written later (endorsed).
PostSchema(a, id) ==
    IF a.mode = "direct"
    THEN [a EXCEPT !.schemas = IF id \in Range(@) THEN @ ELSE Append(@, id)]
    ELSE [a EXCEPT !.pending = @ \cup {id}]

PostCredDef(a, id) ==
    IF a.mode = "direct"
    THEN [a EXCEPT !.creddefs = IF id \in Range(@) THEN @ ELSE Append(@, id)]
    ELSE [a EXCEPT !.pendingcd = @ \cup {id}]

\* The endorser writes a pending schema / credential definition to the ledger.
AgentEndorseSchema ==
    /\ \E id \in agent.pending :
          agent' = [agent EXCEPT !.pending = @ \ {id},
                                 !.schemas = IF id \in Range(@) THEN @ ELSE Append(@, id)]
    /\ UNCHANGED <<prog, pc, stack, did, sess, log, loc, err, ret, steps>>

AgentEndorseCredDef ==
    /\ \E id \in agent.pendingcd :
          agent' = [agent EXCEPT !.pendingcd = @ \ {id},
                                 !.creddefs = IF id \in Range(@) THEN @ ELSE Append(@, id)]
    /\ UNCHANGED <<prog, pc, stack, did, sess, log, loc, err, ret, steps>>

----------------------------------------------------------------------------
(* controller_pkg: Controller.register_schema, register_cred_def,          *)
(* register_schema_and_cred_def                                            *)

schema_exists(created_schemas) == Len(created_schemas) > 0

pkg_rs_get ==
    /\ pc = "prs_get"
    /\ \/ LET created_schemas == CreatedSchemas(agent, loc.rs_name) IN
          /\ log' = Record(log, Req(loc.self, "register_schema", "GET /schemas/created",
                                    IF Len(created_schemas) > 0 THEN "ok" ELSE "empty"))
          /\ IF schema_exists(created_schemas)
             THEN Return(created_schemas[1])
             ELSE pc' = "prs_post" /\ UNCHANGED <<stack, ret>>
          /\ UNCHANGED <<prog, did, sess, loc, err, steps, agent>>
       \/ Failed(loc.self, "register_schema", "GET /schemas/created")

pkg_rs_post ==
    /\ pc = "prs_post"
    /\ \/ LET id == <<loc.rs_name, loc.rs_version>> IN
          /\ log' = Record(log, Req(loc.self, "register_schema", "POST /schemas", "ok"))
          /\ agent' = PostSchema(agent, id)
          /\ IF agent.mode = "direct"
             THEN Return(id) /\ UNCHANGED err
             ELSE Raise("KeyError") /\ UNCHANGED ret      \* schema_response["schema_id"]
          /\ UNCHANGED <<prog, did, sess, loc, steps>>
       \/ Failed(loc.self, "register_schema", "POST /schemas")

\* register_schema_and_cred_def between its two calls: schema_id = await register_schema(...)
\* (the returned value is bound to the local schema_id)
pkg_rscd_mid ==
    /\ pc = "prscd_mid"
    /\ loc' = [loc EXCEPT !.cd_schema_id = ret, !.cd_name = loc.schema_name, !.cd_tag = loc.tag]
    /\ ret' = NoId
    /\ pc' = "pcd_post"
    /\ UNCHANGED <<prog, stack, did, sess, log, err, steps, agent>>

\* The characters of the controller identities, schema names and versions of this model.
Chars(s) ==
    CASE s = "server" -> <<"s", "e", "r", "v", "e", "r">>
      [] s = "client" -> <<"c", "l", "i", "e", "n", "t">>
      [] s = "demo" -> <<"d", "e", "m", "o">>
      [] s = "my schema" -> <<"m", "y", " ", "s", "c", "h", "e", "m", "a">>
      [] s = "1.0" -> <<"1", ".", "0">>
      [] s = "2.0" -> <<"2", ".", "0">>

\* "".join(chars)
RECURSIVE join(_)
join(chars) == IF chars = <<>> THEN "" ELSE Head(chars) \o join(Tail(chars))

\* str.replace(old, new) on the characters of a string, old being one character
replace(chars, old, new) == [i \in DOMAIN chars |-> IF chars[i] = old THEN new ELSE chars[i]]

\* A default tag that leaves the name as it is.
cred_def_tag_plain(tag, ident, schema_name) ==
    IF tag # None /\ tag # ""
    THEN tag
    ELSE join(Chars(ident) \o <<".">> \o Chars(schema_name))

\* tag if tag else (self.ident + "." + schema_name).replace(" ", "_")
cred_def_tag(tag, ident, schema_name) ==
    IF tag # None /\ tag # ""
    THEN tag
    ELSE join(replace(Chars(ident) \o <<".">> \o Chars(schema_name), " ", "_"))

pkg_cd_post ==
    /\ pc = "pcd_post"
    /\ \/ LET id == <<loc.cd_schema_id, cred_def_tag(loc.cd_tag, loc.self, loc.cd_name)>> IN
          /\ log' = Record(log, Req(loc.self, "register_cred_def", "POST /credential-definitions", "ok"))
          /\ agent' = PostCredDef(agent, id)
          /\ IF agent.mode = "direct"
             THEN Return(<<loc.cd_schema_id, id>>) /\ UNCHANGED err
             ELSE Raise("KeyError") /\ UNCHANGED ret      \* cred_def_response["credential_definition_id"]
          /\ UNCHANGED <<prog, did, sess, loc, steps>>
       \/ Failed(loc.self, "register_cred_def", "POST /credential-definitions")

\* build_cred_preview_attributes_json: GET /schemas/{schema_id}
bp_get ==
    /\ pc = "bp_get"
    /\ \/ /\ log' = Record(log, Req(loc.self, "build_cred_preview_attributes_json", "GET /schemas/{id}",
                                    IF loc.schema_id \in Range(agent.schemas) THEN "ok" ELSE "empty"))
          /\ IF loc.schema_id \in Range(agent.schemas)
             THEN Return(<<"attributes">>) /\ UNCHANGED err
             ELSE Raise("RuntimeError") /\ UNCHANGED ret   \* Ledger has no schema with id
          /\ UNCHANGED <<prog, did, sess, loc, steps, agent>>
       \/ Failed(loc.self, "build_cred_preview_attributes_json", "GET /schemas/{id}")

----------------------------------------------------------------------------
(* controller_pkg: Controller.get_did, fetch_did, register_did *)

\* Number of identifiers the agents create in one run.
MaxDids == 3

\* What get_did finds when it is called: the cache, the identifier the agent
\* announces, the requests sent so far, and what the call before it returned.
get_did_entry(l) ==
    [l EXCEPT !.gd_from = Len(log), !.gd_cached = did[l.self],
              !.gd_pub = agent.pub[l.self], !.gd_prev = l.gd_value]

\* get_did fetching the public identifier from the agent whatever the cache holds.
pkg_get_did_refetch ==
    /\ pc = "pgd"
    /\ pc' = "pfd_get"
    /\ stack' = <<"pgd_ret">> \o stack
    /\ loc' = get_did_entry(loc)
    /\ UNCHANGED <<prog, did, sess, log, err, ret, steps, agent>>

\* get_did: if not self.did: await self.fetch_did()
\*          return self.did
pkg_get_did ==
    /\ pc = "pgd"
    /\ IF did[loc.self] = NoDid
       THEN /\ pc' = "pfd_get"
            /\ stack' = <<"pgd_ret">> \o stack
            /\ loc' = get_did_entry(loc)
            /\ UNCHANGED ret
       ELSE /\ Return(<<did[loc.self]>>)
            /\ loc' = [get_did_entry(loc) EXCEPT !.gd_value = did[loc.self]]
    /\ UNCHANGED <<prog, did, sess, log, err, steps, agent>>

\* get_did after fetch_did: return self.did
pkg_get_did_ret ==
    /\ pc = "pgd_ret"
    /\ Return(<<did[loc.self]>>)
    /\ loc' = [loc EXCEPT !.gd_value = did[loc.self]]
    /\ UNCHANGED <<prog, did, sess, log, err, steps, agent>>

\* fetch_did: GET /wallet/did/public; the announced identifier is cached,
\* and register_did runs if the agent announces none.
pkg_fd_get ==
    /\ pc = "pfd_get"
    /\ \/ LET result == agent.pub[loc.self] IN
          /\ log' = Record(log, Req(loc.self, "fetch_did", "GET /wallet/did/public",
                                    IF result # NoDid THEN "ok" ELSE "empty"))
          /\ IF result # NoDid
             THEN /\ did' = [did EXCEPT ![loc.self] = result]
                  /\ Return(NoId)
             ELSE /\ pc' = "rd_create"
                  /\ UNCHANGED <<did, stack, ret>>
          /\ UNCHANGED <<prog, sess, loc, err, steps, agent>>
       \/ Failed(loc.self, "fetch_did", "GET /wallet/did/public")

\* register_did that creates no new identifier when one is cached already.
rd_create_reuse ==
    /\ pc = "rd_create"
    /\ agent.next <= MaxDids
    /\ \/ /\ log' = Record(log, Req(loc.self, "register_did", "POST /wallet/did/create", "ok"))
          /\ loc' = [loc EXCEPT !.new_did = IF did[loc.self] # NoDid THEN did[loc.self] ELSE agent.next]
          /\ agent' = [agent EXCEPT !.next = @ + 1]
          /\ pc' = "rd_ledger"
          /\ UNCHANGED <<prog, stack, did, sess, err, ret, steps>>
       \/ Failed(loc.self, "register_did", "POST /wallet/did/create")

\* register_did caching the created identifier before the ledger has confirmed it.
rd_create_caches ==
    /\ pc = "rd_create"
    /\ agent.next <= MaxDids
    /\ \/ /\ log' = Record(log, Req(loc.self, "register_did", "POST /wallet/did/create", "ok"))
          /\ loc' = [loc EXCEPT !.new_did = agent.next]
          /\ did' = [did EXCEPT ![loc.self] = agent.next]
          /\ agent' = [agent EXCEPT !.next = @ + 1]
          /\ pc' = "rd_ledger"
          /\ UNCHANGED <<prog, stack, sess, err, ret, steps>>
       \/ Failed(loc.self, "register_did", "POST /wallet/did/create")

\* register_did: POST /wallet/did/create
rd_create ==
    /\ pc = "rd_create"
    /\ agent.next <= MaxDids
    /\ \/ /\ log' = Record(log, Req(loc.self, "register_did", "POST /wallet/did/create", "ok"))
          /\ loc' = [loc EXCEPT !.new_did = agent.next]
          /\ agent' = [agent EXCEPT !.next = @ + 1]
          /\ pc' = "rd_ledger"
          /\ UNCHANGED <<prog, stack, did, sess, err, ret, steps>>
       \/ Failed(loc.self, "register_did", "POST /wallet/did/create")

\* register_did going on to the announcement whatever status the ledger answers.
rd_ledger_lenient ==
    /\ pc = "rd_ledger"
    /\ \/ /\ \E res \in {"ok", "non200"} :
                log' = Record(log, Req(loc.self, "register_did", "POST ledger /register", res))
          /\ did' = [did EXCEPT ![loc.self] = loc.new_did]
          /\ pc' = "rd_public"
          /\ UNCHANGED <<prog, stack, sess, loc, err, ret, steps, agent>>
       \/ Failed(loc.self, "register_did", "POST ledger /register")

\* register_did: POST {ledger_url}/register; a status other than 200 raises,
\* on 200 the identifier the ledger echoes is cached.
rd_ledger ==
    /\ pc = "rd_ledger"
    /\ \/ /\ log' = Record(log, Req(loc.self, "register_did", "POST ledger /register", "ok"))
          /\ did' = [did EXCEPT ![loc.self] = loc.new_did]
          /\ pc' = "rd_public"
          /\ UNCHANGED <<prog, stack, sess, loc, err, ret, steps, agent>>
       \/ /\ log' = Record(log, Req(loc.self, "register_did", "POST ledger /register", "non200"))
          /\ Raise("LedgerRegistrationFailed")
          /\ UNCHANGED <<prog, did, sess, loc, ret, steps, agent>>
       \/ Failed(loc.self, "register_did", "POST ledger /register")

\* register_did: POST /wallet/did/public?did=self.did
rd_public ==
    /\ pc = "rd_public"
    /\ \/ /\ log' = Record(log, Req(loc.self, "register_did", "POST /wallet/did/public", "ok"))
          /\ agent' = [agent EXCEPT !.pub[loc.self] = did[loc.self]]
          /\ loc' = [loc EXCEPT !.rd_dids = Append(@, did[loc.self])]
          /\ Return(NoId)
          /\ UNCHANGED <<prog, did, sess, err, steps>>
       \/ Failed(loc.self, "register_did", "POST /wallet/did/public")

----------------------------------------------------------------------------
(* Credential exchange records on the agents *)

ThreadId == "T1"

\* GET /issue-credential-2.0/records on the agent of controller c, filtered
\* by thread_id and (if given) state.
Records(a, c, thread_id, state) ==
    LET rec == IF c = "client" THEN a.hrec ELSE a.irec IN
    IF rec \notin {"none", "removed"} /\ thread_id = ThreadId /\ state \in {None, rec}
    THEN <<[cred_ex_id |-> IF c = "client" THEN "HX1" ELSE "IX1", state |-> rec]>>
    ELSE <<>>

\* has_credential_exchange_record without the test of the result list.
has_credential_exchange_record_any(results) == Len(results) >= 0

\* return len((await self.get_credential_exchange_records(params))["results"]) > 0
has_credential_exchange_record(results) == Len(results) > 0

\* Agent-internal protocol steps, invisible to the controllers.
AgentOfferArrives ==
    /\ agent.irec = "offer-sent" /\ agent.hrec = "none"
    /\ agent' = [agent EXCEPT !.hrec = "offer-received"]
    /\ UNCHANGED <<prog, pc, stack, did, sess, log, loc, err, ret, steps>>

\* The holder agent answers the offer by itself (auto-respond).
AgentHolderResponds ==
    /\ agent.hrec = "offer-received"
    /\ agent' = [agent EXCEPT !.hrec = "request-sent"]
    /\ UNCHANGED <<prog, pc, stack, did, sess, log, loc, err, ret, steps>>

AgentRequestArrives ==
    /\ agent.hrec = "request-sent" /\ agent.irec = "offer-sent"
    /\ agent' = [agent EXCEPT !.irec = "request-received"]
    /\ UNCHANGED <<prog, pc, stack, did, sess, log, loc, err, ret, steps>>

\* The issuer agent answers the request by itself (auto-respond).
AgentIssuerResponds ==
    /\ agent.irec = "request-received"
    /\ agent' = [agent EXCEPT !.irec = "credential-issued"]
    /\ UNCHANGED <<prog, pc, stack, did, sess, log, loc, err, ret, steps>>

----------------------------------------------------------------------------
(* controller_pkg: Controller.offer_credential, request_credential,        *)
(* issue_credential                                                        *)

\* The text of the identifier that the ledger gives the schema (name, version).
SchemaIdChars(id) == <<"A", "v", "1", ":", "2", ":">> \o Chars(id[1]) \o <<":">> \o Chars(id[2])

\* str.split(sep) on the characters of a string, sep being one character:
\* the k-th segment lies between the (k-1)-th and the k-th separator
split(chars, sep) ==
    LET seps == {i \in DOMAIN chars : chars[i] = sep}
        nth(k) == CHOOSE i \in seps : Cardinality({j \in seps : j < i}) = k - 1
        first(k) == IF k = 1 THEN 1 ELSE nth(k - 1) + 1
        last(k) == IF k = Cardinality(seps) + 1 THEN Len(chars) ELSE nth(k) - 1
    IN [k \in 1..(Cardinality(seps) + 1) |-> SubSeq(chars, first(k), last(k))]

\* The identifier that a caller names as the issuer of the schema.
SchemaIssuer == 9

\* No offer has been built.
NoFilter == [issuer_did |-> NoDid, schema_issuer_did |-> NoDid, schema_name |-> None, schema_version |-> None]

\* schema_id_comps = schema_id.split(":"); schema_name = schema_id_comps[-2];
\* schema_version = schema_id_comps[-1]; schema_issuer_did = schema_issuer_did or issuer_did;
\* the "indy" filter of the request body
offer_filter(issuer_did, schema_id, schema_issuer_did) ==
    LET schema_id_comps == split(schema_id, ":") IN
    [issuer_did |-> issuer_did,
     schema_issuer_did |-> IF schema_issuer_did # NoDid THEN schema_issuer_did ELSE issuer_did,
     schema_name |-> join(schema_id_comps[Len(schema_id_comps) - 1]),
     schema_version |-> join(schema_id_comps[Len(schema_id_comps)])]

\* offer_credential after get_did: the body is built, then POST /issue-credential-2.0/send-offer
oc_post ==
    /\ pc = "oc_post"
    /\ IF Len(split(loc.oc_schema_id, ":")) < 2
       THEN /\ Raise("IndexError")                       \* schema_id_comps[-2]
            /\ UNCHANGED <<prog, did, sess, log, loc, ret, steps, agent>>
       ELSE \/ /\ log' = Record(log, Req(loc.self, "offer_credential", "POST /issue-credential-2.0/send-offer", "ok"))
               /\ agent' = [agent EXCEPT !.irec = "offer-sent"]
               /\ loc' = [loc EXCEPT !.filter = offer_filter(ret[1], loc.oc_schema_id, loc.oc_issuer)]
               /\ Return(<<"IX1", ThreadId>>)
               /\ UNCHANGED <<prog, did, sess, err, steps>>
            \/ Failed(loc.self, "offer_credential", "POST /issue-credential-2.0/send-offer")

\* Both operations looking for a record in state request-received.
RequiredState_same(op) == "request-received"

\* The state a record must be in for the operation.
RequiredState(op) == IF op = "request_credential" THEN "offer-received" ELSE "request-received"

\* request_credential / issue_credential:
\*   if not await self.has_credential_exchange_record(params): raise RuntimeError(...)
cx_has(op, at, next) ==
    /\ pc = at
    /\ \/ LET results == Records(agent, loc.self, loc.cx_thread_id, RequiredState(op)) IN
          /\ log' = Record(log, Req(loc.self, op, "GET /issue-credential-2.0/records",
                                    IF Len(results) > 0 THEN "ok" ELSE "empty"))
          /\ IF has_credential_exchange_record(results)
             THEN pc' = next /\ UNCHANGED <<stack, err>>
             ELSE Raise("RecordNotFound")
          /\ UNCHANGED <<prog, did, sess, loc, ret, steps, agent>>
       \/ Failed(loc.self, op, "GET /issue-credential-2.0/records")

\*   cred_ex_id = (await self.get_credential_exchange_records(params))["results"][0]["cred_ex_record"]["cred_ex_id"]
cx_get(op, at, next) ==
    /\ pc = at
    /\ \/ LET results == Records(agent, loc.self, loc.cx_thread_id, RequiredState(op)) IN
          /\ log' = Record(log, Req(loc.self, op, "GET /issue-credential-2.0/records",
                                    IF Len(results) > 0 THEN "ok" ELSE "empty"))
          /\ IF Len(results) > 0
             THEN /\ loc' = [loc EXCEPT !.cred_ex_id = results[1].cred_ex_id]
                  /\ pc' = next
                  /\ UNCHANGED <<stack, err>>
             ELSE /\ Raise("IndexError")
                  /\ UNCHANGED loc
          /\ UNCHANGED <<prog, did, sess, ret, steps, agent>>
       \/ Failed(loc.self, op, "GET /issue-credential-2.0/records")

\*   return await self.admin_POST(f"/issue-credential-2.0/records/{cred_ex_id}/send-request" | "/issue")
\* The agent refuses the request (a non-2xx answer) when the record is not in the required state.
cx_post(op, at, path, after) ==
    /\ pc = at
    /\ \/ /\ Records(agent, loc.self, loc.cx_thread_id, RequiredState(op)) # <<>>
          /\ log' = Record(log, Req(loc.self, op, path, "ok"))
          /\ agent' = IF loc.self = "client" THEN [agent EXCEPT !.hrec = after]
                                              ELSE [agent EXCEPT !.irec = after]
          /\ Return(<<op>>)
          /\ UNCHANGED <<prog, did, sess, loc, err, steps>>
       \/ Failed(loc.self, op, path)

rc_has == cx_has("request_credential", "rc_has", "rc_get")
rc_get == cx_get("request_credential", "rc_get", "rc_post")
rc_post == cx_post("request_credential", "rc_post", "POST /issue-credential-2.0/records/{id}/send-request", "request-sent")

ic_has == cx_has("issue_credential", "ic_has", "ic_get")
ic_get == cx_get("issue_credential", "ic_get", "ic_post")
ic_post == cx_post("issue_credential", "ic_post", "POST /issue-credential-2.0/records/{id}/issue", "credential-issued")

----------------------------------------------------------------------------
(* Setup.exchange_credential *)

\* _, thread_id = await self.server_controller.offer_credential(...)
xc_offer ==
    /\ pc = "xc_offer"
    /\ loc' = [loc EXCEPT !.self = "server", !.oc_schema_id = SchemaIdChars(loc.schema_id),
                          !.oc_issuer = NoDid]
    /\ pc' = "pgd"
    /\ stack' = <<"oc_post", "xc_offered">> \o stack
    /\ UNCHANGED <<prog, did, sess, log, err, ret, steps, agent>>

xc_offered ==
    /\ pc = "xc_offered"
    /\ loc' = [loc EXCEPT !.thread_id = ret[2]]
    /\ pc' = "xc_hpoll"
    /\ UNCHANGED <<prog, stack, did, sess, log, err, ret, steps, agent>>

\* while not await self.client_controller.has_credential_exchange_record({"thread_id": thread_id}): sleep(0.1)
\* await self.client_controller.request_credential(thread_id)
xc_hpoll ==
    /\ pc = "xc_hpoll"
    /\ \/ LET results == Records(agent, "client", loc.thread_id, None) IN
          /\ log' = Record(log, Req("client", "has_credential_exchange_record", "GET /issue-credential-2.0/records",
                                    IF Len(results) > 0 THEN "ok" ELSE "empty"))
          /\ IF has_credential_exchange_record(results)
             THEN /\ loc' = [loc EXCEPT !.self = "client", !.cx_thread_id = loc.thread_id]
                  /\ pc' = "rc_has"
                  /\ stack' = <<"xc_ipoll">> \o stack
             ELSE /\ pc' = "xc_hsleep"
                  /\ UNCHANGED <<loc, stack>>
          /\ UNCHANGED <<prog, did, sess, err, ret, steps, agent>>
       \/ Failed("client", "has_credential_exchange_record", "GET /issue-credential-2.0/records")

\* The holder-side wait giving up after the sleep.
xc_hsleep_giveup ==
    /\ pc = "xc_hsleep"
    /\ Raise("RecordNotFound")
    /\ UNCHANGED <<prog, did, sess, log, loc, ret, steps, agent>>

xc_hsleep ==
    /\ pc = "xc_hsleep"
    /\ pc' = "xc_hpoll"
    /\ UNCHANGED <<prog, stack, did, sess, log, loc, err, ret, steps, agent>>

\* while not await self.server_controller.has_credential_exchange_record(
\*     {"thread_id": thread_id, "state": "request-received"}): sleep(0.1)
\* await self.server_controller.issue_credential(thread_id)
xc_ipoll ==
    /\ pc = "xc_ipoll"
    /\ \/ LET results == Records(agent, "server", loc.thread_id, "request-received") IN
          /\ log' = Record(log, Req("server", "has_credential_exchange_record", "GET /issue-credential-2.0/records",
                                    IF Len(results) > 0 THEN "ok" ELSE "empty"))
          /\ IF has_credential_exchange_record(results)
             THEN /\ loc' = [loc EXCEPT !.self = "server", !.cx_thread_id = loc.thread_id]
                  /\ pc' = "ic_has"
             ELSE /\ pc' = "xc_isleep"
                  /\ UNCHANGED loc
          /\ UNCHANGED <<prog, stack, did, sess, err, ret, steps, agent>>
       \/ Failed("server", "has_credential_exchange_record", "GET /issue-credential-2.0/records")

\* The issuer-side wait handing control back to the holder-side poll, as if
\* the two waits ran interleaved.
xc_isleep_interleaved ==
    /\ pc = "xc_isleep"
    /\ pc' = "xc_hpoll"
    /\ UNCHANGED <<prog, stack, did, sess, log, loc, err, ret, steps, agent>>


xc_isleep ==
    /\ pc = "xc_isleep"
    /\ pc' = "xc_ipoll"
    /\ UNCHANGED <<prog, stack, did, sess, log, loc, err, ret, steps, agent>>

----------------------------------------------------------------------------
(* controller: Controller.register_schema, register_cred_def (with the     *)
(* endorser wait)                                                          *)

\* attempts = 3
Attempts == 3

\* The loop condition without the attempts budget.
rs_while_forever(attempts, schema_ids) == 0 = Len(schema_ids)

\* while 0 < attempts and 0 == len(schema_response["schema_ids"])
rs_while(attempts, schema_ids) == 0 < attempts /\ 0 = Len(schema_ids)

\* while 0 < attempts and 0 == len(cred_def_response["credential_definition_ids"])
cd_while(attempts, credential_definition_ids) == 0 < attempts /\ 0 = Len(credential_definition_ids)

\* schema_id = schema_response["schema_ids"][0] after the loop
rs_first(schema_ids) ==
    IF Len(schema_ids) = 0
    THEN Raise("IndexError") /\ UNCHANGED ret
    ELSE Return(schema_ids[1]) /\ UNCHANGED err

\* cred_def_id = cred_def_response["credential_definition_ids"][0] after the loop
cd_first(schema_id, credential_definition_ids) ==
    IF Len(credential_definition_ids) = 0
    THEN Raise("IndexError") /\ UNCHANGED ret
    ELSE Return(<<schema_id, credential_definition_ids[1]>>) /\ UNCHANGED err

\* schema_response = await self.admin_POST("/schemas", schema_body)
rs_post ==
    /\ pc = "rs_post"
    /\ \/ LET id == <<loc.rs_name, loc.rs_version>> IN
          /\ log' = Record(log, Req(loc.self, "register_schema", "POST /schemas", "ok"))
          /\ agent' = PostSchema(agent, id)
          /\ loc' = [loc EXCEPT !.response = IF agent.mode = "direct" THEN id ELSE NoId]
          /\ pc' = "rs_sleep2"
          /\ UNCHANGED <<prog, stack, did, sess, err, ret, steps>>
       \/ Failed(loc.self, "register_schema", "POST /schemas")

\* A register_schema that inspects the creation response without sleeping first.
rs_sleep2_skipped ==
    /\ pc = "rs_sleep2"
    /\ IF loc.response # NoId
       THEN Return(loc.response) /\ loc' = loc
       ELSE /\ loc' = [loc EXCEPT !.listing = <<>>, !.attempts = Attempts]
            /\ pc' = "rs_get"
            /\ UNCHANGED <<stack, ret>>
    /\ UNCHANGED <<prog, did, sess, log, err, steps, agent>>

\* A register_schema that polls the listing whatever the creation response holds.
rs_sleep2_polls ==
    /\ pc = "rs_sleep2"
    /\ loc' = [loc EXCEPT !.listing = <<>>, !.attempts = Attempts, !.sleeps = @ + 1]
    /\ pc' = "rs_get"
    /\ UNCHANGED <<prog, stack, did, sess, log, err, ret, steps, agent>>

\* await asyncio.sleep(2.0); if "schema_id" in schema_response: ... else: attempts = 3
rs_sleep2 ==
    /\ pc = "rs_sleep2"
    /\ IF loc.response # NoId
       THEN Return(loc.response) /\ loc' = [loc EXCEPT !.sleeps = @ + 1]
       ELSE /\ loc' = [loc EXCEPT !.listing = <<>>, !.attempts = Attempts, !.sleeps = @ + 1]
            /\ pc' = "rs_get"
            /\ UNCHANGED <<stack, ret>>
    /\ UNCHANGED <<prog, did, sess, log, err, steps, agent>>

\* schema_response = await self.admin_GET("/schemas/created")
rs_get ==
    /\ pc = "rs_get"
    /\ \/ LET schema_ids == agent.schemas IN
          /\ log' = Record(log, Req(loc.self, "register_schema", "GET /schemas/created",
                                    IF Len(schema_ids) > 0 THEN "ok" ELSE "empty"))
          /\ loc' = [loc EXCEPT !.listing = schema_ids]
          /\ IF 0 = Len(schema_ids)
             THEN pc' = "rs_sleep1" /\ UNCHANGED <<stack, err, ret>>
             ELSE IF rs_while(loc.attempts, schema_ids)
                  THEN pc' = "rs_get" /\ UNCHANGED <<stack, err, ret>>
                  ELSE rs_first(schema_ids)
          /\ UNCHANGED <<prog, did, sess, steps, agent>>
       \/ Failed(loc.self, "register_schema", "GET /schemas/created")

\* await asyncio.sleep(1.0); attempts = attempts - 1
rs_sleep1 ==
    /\ pc = "rs_sleep1"
    /\ loc' = [loc EXCEPT !.attempts = @ - 1, !.sleeps = @ + 1]
    /\ IF rs_while(loc.attempts - 1, loc.listing)
       THEN pc' = "rs_get" /\ UNCHANGED <<stack, err, ret>>
       ELSE rs_first(loc.listing)
    /\ UNCHANGED <<prog, did, sess, log, steps, agent>>

\* cred_def_response = await self.admin_POST("/credential-definitions", cred_def_body)
cd_post ==
    /\ pc = "cd_post"
    /\ \/ LET id == <<loc.cd_schema_id, cred_def_tag(loc.cd_tag, loc.self, loc.cd_name)>> IN
          /\ log' = Record(log, Req(loc.self, "register_cred_def", "POST /credential-definitions", "ok"))
          /\ agent' = PostCredDef(agent, id)
          /\ loc' = [loc EXCEPT !.response = IF agent.mode = "direct" THEN id ELSE NoId]
          /\ pc' = "cd_sleep2"
          /\ UNCHANGED <<prog, stack, did, sess, err, ret, steps>>
       \/ Failed(loc.self, "register_cred_def", "POST /credential-definitions")

cd_sleep2 ==
    /\ pc = "cd_sleep2"
    /\ IF loc.response # NoId
       THEN Return(<<loc.cd_schema_id, loc.response>>) /\ loc' = [loc EXCEPT !.sleeps = @ + 1]
       ELSE /\ loc' = [loc EXCEPT !.listing = <<>>, !.attempts = Attempts, !.sleeps = @ + 1]
            /\ pc' = "cd_get"
            /\ UNCHANGED <<stack, ret>>
    /\ UNCHANGED <<prog, did, sess, log, err, steps, agent>>

\* cred_def_response = await self.admin_GET("/credential-definitions/created")
cd_get ==
    /\ pc = "cd_get"
    /\ \/ LET ids == agent.creddefs IN
          /\ log' = Record(log, Req(loc.self, "register_cred_def", "GET /credential-definitions/created",
                                    IF Len(ids) > 0 THEN "ok" ELSE "empty"))
          /\ loc' = [loc EXCEPT !.listing = ids]
          /\ IF 0 = Len(ids)
             THEN pc' = "cd_sleep1" /\ UNCHANGED <<stack, err, ret>>
             ELSE IF cd_while(loc.attempts, ids)
                  THEN pc' = "cd_get" /\ UNCHANGED <<stack, err, ret>>
                  ELSE cd_first(loc.cd_schema_id, ids)
          /\ UNCHANGED <<prog, did, sess, steps, agent>>
       \/ Failed(loc.self, "register_cred_def", "GET /credential-definitions/created")

cd_sleep1 ==
    /\ pc = "cd_sleep1"
    /\ loc' = [loc EXCEPT !.attempts = @ - 1, !.sleeps = @ + 1]
    /\ IF cd_while(loc.attempts - 1, loc.listing)
       THEN pc' = "cd_get" /\ UNCHANGED <<stack, err, ret>>
       ELSE cd_first(loc.cd_schema_id, loc.listing)
    /\ UNCHANGED <<prog, did, sess, log, steps, agent>>

\* A call of register_schema_and_cred_def(schema_name, schema_attrs, version, tag) on the controller:
\* schema_id = await self.register_schema(schema_name, version, schema_attrs)
\* binds the arguments by position to register_schema(schema_name, schema_attrs, version).
call_register_schema_and_cred_def ==
    /\ prog = "rscd" /\ pc = "idle"
    /\ \E name \in Names, version \in Versions, tag \in {None, "tag1"} :
          loc' = [loc EXCEPT !.self = "server", !.schema_name = name, !.schema_attrs = "attrs",
                             !.version = version, !.tag = tag,
                             !.rs_name = name, !.rs_attrs = version, !.rs_version = "attrs",
                             !.existed = Len(CreatedSchemas(agent, name)) > 0]
    /\ pc' = "rs_post"
    /\ stack' = <<"rscd_mid", "returned">>
    /\ UNCHANGED <<prog, did, sess, log, err, ret, steps, agent>>

\* return await self.register_cred_def(schema_id, schema_name, tag)
rscd_mid ==
    /\ pc = "rscd_mid"
    /\ loc' = [loc EXCEPT !.cd_schema_id = ret, !.cd_name = loc.schema_name, !.cd_tag = loc.tag,
                          !.response = NoId, !.listing = <<>>, !.sleeps = 0]
    /\ ret' = NoId
    /\ pc' = "cd_post"
    /\ UNCHANGED <<prog, stack, did, sess, log, err, steps, agent>>

\* A call of register_schema(schema_name, schema_attrs, version) on the controller.
call_register_schema ==
    /\ prog = "ctl" /\ pc = "idle"
    /\ \E name \in Names, version \in Versions :
          loc' = [loc EXCEPT !.self = "server", !.rs_name = name, !.rs_attrs = "attrs",
                             !.rs_version = version,
                             !.existed = Len(CreatedSchemas(agent, name)) > 0]
    /\ pc' = "rs_post"
    /\ stack' = <<"returned">>
    /\ UNCHANGED <<prog, did, sess, log, err, ret, steps, agent>>

\* A call of register_cred_def(schema_id, schema_name, tag) on the controller.
call_register_cred_def ==
    /\ prog = "ctl" /\ pc = "idle"
    /\ \E name \in Names, version \in Versions, tag \in {None, "tag1"} :
          loc' = [loc EXCEPT !.self = "server", !.cd_schema_id = <<name, version>>,
                             !.cd_name = name, !.cd_tag = tag]
    /\ pc' = "cd_post"
    /\ stack' = <<"returned">>
    /\ UNCHANGED <<prog, did, sess, log, err, ret, steps, agent>>

----------------------------------------------------------------------------
(* setup.py: main *)

\* server_connection_id, _ = await setup.exchange_connection()
m_exchange_connection ==
    /\ prog = "setup" /\ pc = "m_start"
    /\ steps' = Append(steps, <<"start", "exchange_connection">>)
    /\ pc' = "ec_create"
    /\ stack' = <<"m_rscd">>
    /\ UNCHANGED <<prog, did, sess, log, loc, err, ret, agent>>

\* schema_id, cred_def_id = await setup.register_schema_and_cred_def(schema_name, schema_attrs, cred_def_tag)
m_register_schema_and_cred_def ==
    /\ pc = "m_rscd"
    /\ steps' = steps \o << <<"return", "exchange_connection">>, <<"start", "register_schema_and_cred_def">> >>
    /\ loc' = [loc EXCEPT !.server_connection_id = ret[1], !.self = "server",
                          !.schema_name = "demo", !.schema_attrs = "attrs", !.version = "1.0",
                          !.tag = "tag1",
                          !.rs_name = "demo", !.rs_attrs = "attrs", !.rs_version = "1.0",
                          !.existed = Len(CreatedSchemas(agent, "demo")) > 0]
    /\ pc' = "prs_get"
    /\ stack' = <<"prscd_mid", "m_preview">>
    /\ UNCHANGED <<prog, did, sess, log, err, ret, agent>>

\* attributes_json = await setup.server_controller.build_cred_preview_attributes_json(schema_id)
m_preview ==
    /\ pc = "m_preview"
    /\ steps' = Append(steps, <<"return", "register_schema_and_cred_def">>)
    /\ loc' = [loc EXCEPT !.schema_id = ret[1], !.cred_def_id = ret[2], !.self = "server"]
    /\ pc' = "bp_get"
    /\ stack' = <<"m_xc">>
    /\ UNCHANGED <<prog, did, sess, log, err, ret, agent>>

\* await setup.exchange_credential(server_connection_id, schema_id, cred_def_id, attributes_json)
m_exchange_credential ==
    /\ pc = "m_xc"
    /\ steps' = Append(steps, <<"start", "exchange_credential">>)
    /\ pc' = "xc_offer"
    /\ stack' = <<"m_end">>
    /\ UNCHANGED <<prog, did, sess, log, loc, err, ret, agent>>

m_end ==
    /\ pc = "m_end"
    /\ steps' = Append(steps, <<"return", "exchange_credential">>)
    /\ pc' = "m_close_server"
    /\ UNCHANGED <<prog, stack, did, sess, log, loc, err, ret, agent>>

\* finally: await server_controller.client_session.close()
m_close_server ==
    /\ pc = "m_close_server"
    /\ sess' = [sess EXCEPT !["server"] = FALSE]
    /\ pc' = "m_close_client"
    /\ UNCHANGED <<prog, stack, did, log, loc, err, ret, steps, agent>>

\*          await client_controller.client_session.close()
m_close_client ==
    /\ pc = "m_close_client"
    /\ sess' = [sess EXCEPT !["client"] = FALSE]
    /\ pc' = "exit"
    /\ UNCHANGED <<prog, stack, did, log, loc, err, ret, steps, agent>>

----------------------------------------------------------------------------

(* controller.py: Controller.main, command_prompt_loop, execute, and the    *)
(* commands registered in __init__ (both variants of the controller)        *)

\* Number of commands the user enters in one interactive run.
MaxCommands == 2

\* Largest number the user enters as an index.
MaxIndex == 6

\* self.commands after __init__, in registration order (a dict keeps insertion order).
registered(p) ==
    IF p = "pkg_main"
    THEN <<"register_did", "register_schema", "register_cred_def", "offer_credential", "issue_credential">>
    ELSE <<"register_did", "register_schema", "register_cred_def", "offer_credential">>

Digit == <<"0", "1", "2", "3", "4", "5", "6", "7", "8", "9">>

\* The decimal numeral of n.
RECURSIVE decimal(_)
decimal(n) == IF n < 10 THEN Digit[n + 1] ELSE decimal(n \div 10) \o Digit[(n % 10) + 1]

\* The numerals of 0..MaxIndex, plain and with a leading zero.
Numerals(n) == {decimal(n), "0" \o decimal(n)}

\* SUPERSCRIPT TWO (U+00B2): a digit for str.isdigit, no decimal for int().
Superscript2 == "^2"

\* str.isdigit: non-empty and every character is a digit (superscript digits included).
isdigit(command) ==
    \/ \E n \in 0..MaxIndex : command \in Numerals(n)
    \/ command = Superscript2

\* int(command) succeeds only on decimal characters; otherwise it raises ValueError.
is_decimal(command) == \E n \in 0..MaxIndex : command \in Numerals(n)

int(command) == CHOOSE n \in 0..MaxIndex : command \in Numerals(n)

\* What the user types at the prompt, or passes as args.command.
Inputs ==
    {"0", "3", "4", "5", "03", Superscript2, "", "nope",
     "register_schema", "register_cred_def", "offer_credential", "issue_credential"}

\* main: self.client_session = ClientSession(); if args.interactive: ... else: ...
main_start ==
    /\ prog \in Mains /\ pc = "main"
    /\ sess' = [sess EXCEPT !["server"] = TRUE]
    /\ \E interactive \in BOOLEAN :
          /\ loc' = [loc EXCEPT !.interactive = interactive]
          /\ pc' = IF interactive THEN "prompt" ELSE "single"
    /\ UNCHANGED <<prog, stack, did, log, err, ret, steps, agent>>

\* async for command in self.command_prompt_loop(): command = await prompt(...); yield command
command_prompt_loop ==
    /\ pc = "prompt"
    /\ loc.entered < MaxCommands
    /\ \E command \in Inputs \ {""} :        \* prompt asks again on an empty line
          loc' = [loc EXCEPT !.command = command, !.input = command, !.entered = @ + 1]
    /\ pc' = "execute"
    /\ UNCHANGED <<prog, stack, did, sess, log, err, ret, steps, agent>>

\* command = args.command; if not command: print("No command specified.") else: await self.execute(command)
main_single ==
    /\ pc = "single"
    /\ \E command \in Inputs :
          /\ loc' = [loc EXCEPT !.command = command, !.input = command, !.entered = @ + 1]
          /\ pc' = IF command = "" THEN "terminate" ELSE "execute"
    /\ UNCHANGED <<prog, stack, did, sess, log, err, ret, steps, agent>>

\* Where main goes on when execute has returned.
after_execute == IF loc.interactive THEN "prompt" ELSE "terminate"


\* lookup counting the command table from its end.
lookup_from_end(command, commands) ==
    IF isdigit(command) THEN commands[Len(commands) - int(command)] ELSE command

\* command = list(self.commands)[index]
lookup(command, commands) == IF isdigit(command) THEN commands[int(command) + 1] ELSE command

\* The first position of the operation registered under name, and the positions
\* it passes on its way back to execute.
entry(name) ==
    CASE name = "register_did" -> <<"rd_create">>
      [] name = "register_schema" -> IF prog = "pkg_main" THEN <<"prs_get">> ELSE <<"rs_post">>
      [] name = "register_cred_def" -> IF prog = "pkg_main" THEN <<"pcd_post">> ELSE <<"cd_post">>
      [] name = "offer_credential" -> IF prog = "pkg_main" THEN <<"pgd", "oc_post">> ELSE <<"gd", "ctl_oc_post">>
      [] name = "issue_credential" -> <<"ic_has">>

\* The schema_id and schema_issuer_did entered for offer_credential: an identifier
\* of the ledger with no issuer named, one of two segments with an issuer named,
\* and one without a colon.
OfferArgs ==
    {<<SchemaIdChars(<<"demo", "1.0">>), NoDid>>, << <<"d", ":", "1">>, SchemaIssuer>>, << <<"d">>, NoDid>>}

\* The arguments coro_with_prompt collects for the command (none for register_did).
prompted(name, l) ==
    CASE name = "register_did" -> {[l EXCEPT !.gd_value = NoDid]}
      [] name = "register_schema" ->
            {[l EXCEPT !.rs_name = n, !.rs_attrs = "attrs", !.rs_version = "1.0",
                       !.existed = Len(CreatedSchemas(agent, n)) > 0] : n \in Names}
      [] name = "register_cred_def" ->
            {[l EXCEPT !.cd_schema_id = <<"demo", "1.0">>, !.cd_name = "demo", !.cd_tag = t] : t \in {None, "tag1"}}
      [] name = "offer_credential" ->
            {[l EXCEPT !.oc_schema_id = a[1], !.oc_issuer = a[2]] : a \in OfferArgs}
      [] name = "issue_credential" -> {[l EXCEPT !.cx_thread_id = ThreadId]}

\* execute returning without a call: print("... is not a valid index/command."); return
not_valid ==
    /\ loc' = [loc EXCEPT !.command = None]
    /\ ret' = NoId
    /\ pc' = after_execute
    /\ UNCHANGED <<stack, err>>

\* await self.commands[command]()
invoke(name) ==
    /\ \E l \in prompted(name, loc) :
          loc' = [l EXCEPT !.command = name, !.invoked = Append(@, name)]
    /\ pc' = Head(entry(name))
    /\ stack' = Tail(entry(name)) \o <<"executed">>
    /\ UNCHANGED <<ret, err>>

execute ==
    /\ pc = "execute"
    /\ LET command == loc.command IN
       IF isdigit(command) /\ ~is_decimal(command)
       THEN /\ Raise("ValueError")                      \* index = int(command)
            /\ loc' = [loc EXCEPT !.command = None]
            /\ UNCHANGED ret
       ELSE IF isdigit(command) /\ int(command) >= Len(loc.commands)
       THEN not_valid
       ELSE IF lookup(command, loc.commands) \notin Range(loc.commands)
       THEN not_valid
       ELSE invoke(lookup(command, loc.commands))
    /\ UNCHANGED <<prog, did, sess, log, steps, agent>>

\* The awaited operation has returned and its locals are gone: execute ends
\* without a return statement.
executed ==
    /\ pc = "executed"
    /\ loc' = [loc EXCEPT !.command = None, !.response = NoId, !.listing = <<>>, !.sleeps = 0,
                          !.oc_schema_id = <<>>, !.oc_issuer = NoDid, !.filter = NoFilter]
    /\ ret' = NoId
    /\ pc' = after_execute
    /\ UNCHANGED <<prog, stack, did, sess, log, err, steps, agent>>

\* The truth value Python gives a value in a condition: None counts as false.
truthy(v) == v # None

\* The value of await self.terminate(): the method ends without a return statement.
terminated == None

\* finally: terminated = await self.terminate()      (terminate returns nothing)
terminate ==
    /\ pc = "terminate"
    /\ sess' = [sess EXCEPT !["server"] = FALSE]
    /\ pc' = "main_exit"
    /\ UNCHANGED <<prog, stack, did, log, loc, err, ret, steps, agent>>

\* A failure leaves main after the finally block; otherwise
\* await asyncio.sleep(1.0); if not terminated: exit(1)
main_exit ==
    /\ pc = "main_exit"
    /\ loc' = [loc EXCEPT !.status = IF err # None THEN "raised"
                                     ELSE IF ~truthy(terminated) THEN "exit 1" ELSE "returned"]
    /\ pc' = "exit"
    /\ UNCHANGED <<prog, stack, did, sess, log, err, ret, steps, agent>>

\* controller/controller.py get_did: self.register_did() is called without
\* await, so the coroutine never runs; return self.did
get_did ==
    /\ pc = "gd"
    /\ Return(<<did[loc.self]>>)
    /\ loc' = [get_did_entry(loc) EXCEPT !.gd_value = did[loc.self]]
    /\ UNCHANGED <<prog, did, sess, log, err, steps, agent>>

\* controller/controller.py offer_credential after get_did:
\* POST /issue-credential-2.0/send-offer; nothing is returned
ctl_oc_post ==
    /\ pc = "ctl_oc_post"
    /\ IF Len(split(loc.oc_schema_id, ":")) < 2
       THEN /\ Raise("IndexError")                       \* schema_id_comps[-2]
            /\ UNCHANGED <<prog, did, sess, log, loc, ret, steps, agent>>
       ELSE \/ /\ log' = Record(log, Req(loc.self, "offer_credential", "POST /issue-credential-2.0/send-offer", "ok"))
               /\ agent' = [agent EXCEPT !.irec = "offer-sent"]
               /\ loc' = [loc EXCEPT !.filter = offer_filter(ret[1], loc.oc_schema_id, loc.oc_issuer)]
               /\ Return(NoId)
               /\ UNCHANGED <<prog, did, sess, err, steps>>
            \/ Failed(loc.self, "offer_credential", "POST /issue-credential-2.0/send-offer")


(* controller.py: Controller.admin_request, admin_GET, admin_POST            *)

\* The statuses and bodies an agent may answer with.
Statuses == {200, 204, 304, 404, 500}
Bodies == {"", "{\"a\": 1}", "oops"}

\* resp.raise_for_status() raises for a status of 400 and above.
raise_for_status(status) == status >= 400

\* json.loads(resp_text) succeeds
parseable(resp_text) == resp_text = "{\"a\": 1}"

\* json.loads(resp_text): the decoded document
json_loads(resp_text) == <<"json", resp_text>>

\* admin_request after the response has arrived: the exception it raises, or
\* the value it returns (NoId is None).
classify(status, resp_text, text) ==
    IF raise_for_status(status) THEN [raises |-> "RequestFailed", value |-> NoId]
    ELSE IF resp_text = "" /\ ~text THEN [raises |-> None, value |-> NoId]
    ELSE IF ~text
         THEN IF parseable(resp_text) THEN [raises |-> None, value |-> json_loads(resp_text)]
              ELSE [raises |-> "DecodeFailed", value |-> NoId]
    ELSE [raises |-> None, value |-> <<"text", resp_text>>]

\* A call of admin_GET(path, text) or admin_POST(path, data, text) on the controller.
admin_call ==
    /\ prog = "request" /\ pc = "admin_call"
    /\ \E method \in {"GET", "POST"}, text \in BOOLEAN :
          loc' = [loc EXCEPT !.method = method, !.text = text]
    /\ pc' = "admin_request"
    /\ stack' = <<"returned">>
    /\ UNCHANGED <<prog, did, sess, log, err, ret, steps, agent>>

\* admin_GET / admin_POST: except ClientError as e: self.log(...); raise
admin_except_retry ==
    /\ pc' = "admin_request"
    /\ UNCHANGED <<stack, err, ret>>

admin_except ==
    /\ Raise("ClientError")
    /\ UNCHANGED ret

\* admin_request: one request on the client session, then the classification
\* of the response; a connection error leaves through the wrapper's except.
admin_request ==
    /\ pc = "admin_request"
    /\ log' = Record(log, Req(loc.self, "admin_" \o loc.method, loc.method \o " path", "sent"))
    /\ \/ /\ admin_except
          /\ UNCHANGED loc
       \/ \E status \in Statuses, resp_text \in Bodies :
             LET r == classify(status, resp_text, loc.text) IN
             /\ loc' = [loc EXCEPT !.resp_status = status, !.resp_text = resp_text]
             /\ IF r.raises # None
                THEN Raise(r.raises) /\ UNCHANGED ret
                ELSE Return(r.value) /\ UNCHANGED err
    /\ UNCHANGED <<prog, did, sess, steps, agent>>


InitSchemas == {<<>>, << <<"my schema", "1.0">> >>, << <<"demo", "1.0">> >>, << <<"demo", "2.0">> >>}
InitCredDefs == {<<>>, << << <<"my schema", "1.0">>, "old">> >>}

----------------------------------------------------------------------------
(* asyncio.run(main(args)) interrupted by the user: except KeyboardInterrupt: sys.exit() *)

\* The positions where the program is suspended in a request or in an interval wait.
Awaiting ==
    {"ec_create", "ec_receive", "ec_request", "ec_poll", "ec_sleep", "ac_get", "ac_post",
     "prs_get", "prs_post", "pcd_post", "bp_get", "pfd_get", "rd_create", "rd_ledger", "rd_public",
     "oc_post", "ctl_oc_post", "xc_hpoll", "xc_hsleep", "xc_ipoll", "xc_isleep",
     "rc_has", "rc_get", "rc_post", "ic_has", "ic_get", "ic_post",
     "rs_post", "rs_sleep2", "rs_get", "rs_sleep1", "cd_post", "cd_sleep2", "cd_get", "cd_sleep1"}

\* An interruption that ends the process at once.
interrupt_abrupt ==
    /\ prog \in {"setup"} \cup Mains
    /\ pc \in Awaiting
    /\ err' = "KeyboardInterrupt"
    /\ pc' = "exit"
    /\ stack' = <<>>
    /\ UNCHANGED <<prog, did, sess, log, loc, ret, steps, agent>>

\* The interruption cancels the coroutine of main: the pending await raises in the
\* suspended operation and the exception leaves through the finally block of main.
interrupt ==
    /\ prog \in {"setup"} \cup Mains
    /\ pc \in Awaiting
    /\ Raise("KeyboardInterrupt")
    /\ UNCHANGED <<prog, did, sess, log, loc, ret, steps, agent>>


Init ==
    /\ prog \in {"setup", "ctl", "rscd", "request"} \cup Mains
    /\ pc = CASE prog = "setup" -> "m_start"
              [] prog \in Mains -> "main"
              [] prog = "request" -> "admin_call"
              [] OTHER -> "idle"
    /\ stack = <<>>
    /\ did = [c \in Ctl |-> NoDid]
    /\ sess = [c \in Ctl |-> prog \notin Mains]
    /\ log = <<>>
    /\ steps = <<>>
    /\ loc = [self |-> "server",
              client_connection_id |-> None, client_connection_did |-> None,
              connection_id |-> None, server_connection_id |-> None,
              schema_name |-> None, schema_attrs |-> None, version |-> None, tag |-> None,
              rs_name |-> None, rs_attrs |-> None, rs_version |-> None, existed |-> FALSE,
              cd_schema_id |-> NoId, cd_name |-> None, cd_tag |-> None,
              schema_id |-> NoId, cred_def_id |-> NoId,
              oc_schema_id |-> <<>>, oc_issuer |-> NoDid, filter |-> NoFilter,
              response |-> NoId, listing |-> <<>>, attempts |-> 0, sleeps |-> 0,
              new_did |-> NoDid, gd_from |-> 0, gd_cached |-> NoDid, gd_pub |-> NoDid,
              gd_prev |-> NoDid, gd_value |-> NoDid,
              interactive |-> FALSE, command |-> None, input |-> None, entered |-> 0, commands |-> registered(prog),
              invoked |-> <<>>, rd_dids |-> <<>>,
              method |-> None, text |-> FALSE, resp_status |-> 0, resp_text |-> None, status |-> "running", thread_id |-> None, cx_thread_id |-> None, cred_ex_id |-> None]
    /\ err = "none"
    /\ ret = <<>>
    /\ \E mode \in {"direct", "endorsed"}, schemas \in InitSchemas, creddefs \in InitCredDefs,
          pub \in {NoDid, 1} :
          /\ \A cd \in Range(creddefs) : cd[1] \in Range(schemas)
          /\ agent = [conn |-> "none", cconn |-> "none", irec |-> "none", hrec |-> "none",
                   mode |-> mode, schemas |-> schemas, pending |-> {},
                   creddefs |-> creddefs, pendingcd |-> {},
                   pub |-> [c \in Ctl |-> IF c = "server" THEN pub ELSE NoDid], next |-> 2]

Next ==
    \/ m_exchange_connection
    \/ ec_create_invitation
    \/ ec_receive_invitation
    \/ ec_request_connection
    \/ ec_poll
    \/ ec_sleep
    \/ ac_get
    \/ ac_post
    \/ m_register_schema_and_cred_def
    \/ pkg_rs_get
    \/ pkg_rs_post
    \/ pkg_rscd_mid
    \/ pkg_cd_post
    \/ m_preview
    \/ bp_get
    \/ m_exchange_credential
    \/ xc_offer
    \/ pkg_get_did
    \/ pkg_get_did_ret
    \/ pkg_fd_get
    \/ rd_create
    \/ rd_ledger
    \/ rd_public
    \/ oc_post
    \/ xc_offered
    \/ xc_hpoll
    \/ xc_hsleep
    \/ rc_has
    \/ rc_get
    \/ rc_post
    \/ xc_ipoll
    \/ xc_isleep
    \/ ic_has
    \/ ic_get
    \/ ic_post
    \/ m_end
    \/ m_close_server
    \/ m_close_client
    \/ rs_post
    \/ rs_sleep2
    \/ rs_get
    \/ rs_sleep1
    \/ cd_post
    \/ cd_sleep2
    \/ cd_get
    \/ cd_sleep1
    \/ call_register_schema
    \/ call_register_cred_def
    \/ main_start
    \/ command_prompt_loop
    \/ main_single
    \/ execute
    \/ executed
    \/ terminate
    \/ main_exit
    \/ get_did
    \/ ctl_oc_post
    \/ admin_call
    \/ admin_request
    \/ call_register_schema_and_cred_def
    \/ rscd_mid
    \/ interrupt
    \/ AgentConnRequest
    \/ AgentEndorseSchema
    \/ AgentEndorseCredDef
    \/ AgentOfferArrives
    \/ AgentHolderResponds
    \/ AgentRequestArrives
    \/ AgentIssuerResponds

Spec == Init /\ [][Next]_vars

\* The asyncio event loop keeps running the one coroutine of the program; the
\* agents' own progress (Agent* actions) is not guaranteed.
ControllerNext ==
    \/ m_exchange_connection \/ ec_create_invitation \/ ec_receive_invitation
    \/ ec_request_connection \/ ec_poll \/ ec_sleep \/ ac_get \/ ac_post
    \/ m_register_schema_and_cred_def \/ pkg_rs_get \/ pkg_rs_post \/ pkg_rscd_mid
    \/ pkg_cd_post \/ m_preview \/ bp_get \/ m_exchange_credential \/ xc_offer
    \/ pkg_get_did \/ pkg_get_did_ret \/ pkg_fd_get \/ rd_create \/ rd_ledger \/ rd_public \/ oc_post
    \/ xc_offered \/ xc_hpoll \/ xc_hsleep \/ rc_has \/ rc_get \/ rc_post
    \/ xc_ipoll \/ xc_isleep \/ ic_has \/ ic_get \/ ic_post
    \/ m_end \/ m_close_server \/ m_close_client
    \/ rs_post \/ rs_sleep2 \/ rs_get \/ rs_sleep1
    \/ cd_post \/ cd_sleep2 \/ cd_get \/ cd_sleep1
    \/ call_register_schema \/ call_register_cred_def
    \/ call_register_schema_and_cred_def \/ rscd_mid
    \/ main_start \/ command_prompt_loop \/ main_single \/ execute \/ executed
    \/ terminate \/ main_exit \/ get_did \/ ctl_oc_post
    \/ admin_call \/ admin_request

FairSpec == Spec /\ WF_vars(ControllerNext)

\* The program's steps are taken, and the agents deliver what they were sent:
\* the offer reaches the holder agent and the request reaches the issuer agent.
FairAgentsSpec ==
    Spec /\ WF_vars(ControllerNext) /\ WF_vars(AgentOfferArrives) /\ WF_vars(AgentRequestArrives)

----------------------------------------------------------------------------
(* Properties *)

IsConnOp(e) == e.op \in {"create_invitation", "receive_invitation", "request_connection",
                         "has_connection", "accept_connection_request"}
ConnLog == SelectSeq(log, IsConnOp)

\* C1: the requests of exchange_connection are sent in the order create_invitation
\* (issuer), receive_invitation (holder), request_connection (holder),
\* has_connection polls answering false, one answering true, then
\* accept_connection_request (issuer); and exchange_connection returns
\* (connection id of the accept response, connection id of the receive response).
C1_ConnectionOrder ==
    /\ \A i \in DOMAIN ConnLog :
         LET e == ConnLog[i] IN
         /\ (i = 1) <=> (e.op = "create_invitation")
         /\ (i = 2) <=> (e.op = "receive_invitation")
         /\ (i = 3) <=> (e.op = "request_connection")
         /\ e.c = (IF e.op \in {"receive_invitation", "request_connection"} THEN "client" ELSE "server")
         /\ i > 1 => ConnLog[i - 1].res # "fail"
         /\ e.op = "has_connection" =>
               \A j \in 4..(i - 1) : ConnLog[j].op = "has_connection" /\ ConnLog[j].res = "empty"
         /\ e.op = "accept_connection_request" =>
               \E k \in 4..(i - 1) :
                  /\ ConnLog[k].op = "has_connection" /\ ConnLog[k].res = "ok"
                  /\ \A j \in (k + 1)..i : ConnLog[j].op = "accept_connection_request"
    /\ pc = "m_rscd" =>
          /\ ret = <<ServerConnId, ClientConnId>>
          /\ Last(ConnLog) = Req("server", "accept_connection_request",
                                 "POST /connections/{id}/accept-request", "ok")

C1_Witness ==
    /\ pc = "m_rscd"
    /\ ret = <<ServerConnId, ClientConnId>>
    /\ \E i \in DOMAIN ConnLog : ConnLog[i].op = "has_connection" /\ ConnLog[i].res = "empty"
IsCredOp(e) == e.op \in {"offer_credential", "has_credential_exchange_record",
                         "request_credential", "issue_credential"}
CredLog == SelectSeq(log, IsCredOp)
IsCredPoll(e, c) == e.op = "has_credential_exchange_record" /\ e.c = c
SendRequestOk == Req("client", "request_credential",
                     "POST /issue-credential-2.0/records/{id}/send-request", "ok")
IssueOk == Req("server", "issue_credential", "POST /issue-credential-2.0/records/{id}/issue", "ok")

\* C2: the requests of exchange_credential are sent in the order offer_credential
\* (issuer), holder-side has_credential_exchange_record polls until one answers
\* true, request_credential (holder), issuer-side polls until one answers true,
\* issue_credential (issuer): no request_credential before the offer, and no
\* issue_credential before the holder's request_credential has completed.
C2_CredentialOrder ==
    prog = "setup" =>
    \A i \in DOMAIN CredLog :
       LET e == CredLog[i] IN
       /\ (i = 1) <=> (e.op = "offer_credential")
       /\ e.op = "offer_credential" => e.c = "server"
       /\ i > 1 => CredLog[i - 1].res # "fail"
       /\ IsCredPoll(e, "client") =>
             /\ CredLog[1].res = "ok"
             /\ \A j \in 2..(i - 1) : IsCredPoll(CredLog[j], "client") /\ CredLog[j].res = "empty"
       /\ e.op = "request_credential" =>
             /\ e.c = "client"
             /\ \E k \in 2..(i - 1) :
                   /\ IsCredPoll(CredLog[k], "client") /\ CredLog[k].res = "ok"
                   /\ \A j \in (k + 1)..i : CredLog[j].op = "request_credential"
       /\ IsCredPoll(e, "server") =>
             \E k \in 2..(i - 1) :
                /\ CredLog[k] = SendRequestOk
                /\ \A j \in (k + 1)..(i - 1) : IsCredPoll(CredLog[j], "server") /\ CredLog[j].res = "empty"
       /\ e.op = "issue_credential" =>
             /\ e.c = "server"
             /\ \E k \in 2..(i - 1) :
                   /\ IsCredPoll(CredLog[k], "server") /\ CredLog[k].res = "ok"
                   /\ \A j \in (k + 1)..i : CredLog[j].op = "issue_credential"
                   /\ \E r \in 2..(k - 1) : CredLog[r] = SendRequestOk

C2_Witness ==
    /\ prog = "setup" /\ pc = "m_end"
    /\ Last(CredLog) = IssueOk
    /\ \E i, j \in DOMAIN CredLog :
          /\ IsCredPoll(CredLog[i], "client") /\ CredLog[i].res = "empty"
          /\ IsCredPoll(CredLog[j], "server") /\ CredLog[j].res = "empty"

\* C3: when request_credential or issue_credential fails because a query for
\* the record in the required state answers with no record, the failure is
\* RecordNotFound.
C3_RecordNotFoundOnly ==
    (/\ err # "none"
     /\ log # <<>>
     /\ Last(log).op \in {"request_credential", "issue_credential"}
     /\ Last(log).res = "empty")
    => err = "RecordNotFound"
SchemasCreated == "GET /schemas/created"
CredDefsCreated == "GET /credential-definitions/created"

\* The last Attempts requests were polls of the listing and all answered empty.
Exhausted(op, rq) ==
    /\ Len(log) >= Attempts
    /\ \A i \in (Len(log) - Attempts + 1)..Len(log) : log[i] = Req("server", op, rq, "empty")

\* C4: in endorsed mode, when every poll of the created-schemas listing within
\* the 3 attempts answers empty, register_schema fails with SchemaNotFound.
C4_SchemaNotFound ==
    (prog = "ctl" /\ pc = "returned" /\ Exhausted("register_schema", SchemasCreated))
    => err = "SchemaNotFound"

\* C5: in endorsed mode, when every poll of the created-credential-definitions
\* listing within the 3 attempts answers empty, register_cred_def fails with
\* CredDefNotFound.
C5_CredDefNotFound ==
    (prog = "ctl" /\ pc = "returned" /\ Exhausted("register_cred_def", CredDefsCreated))
    => err = "CredDefNotFound"

Gets(rq) == Cardinality({i \in DOMAIN log : log[i].rq = rq})

\* Steps the discovery of register_schema / register_cred_def has left at most.
Measure ==
    CASE pc = "idle" -> 2 * Attempts + 3
      [] pc \in {"rs_post", "cd_post"} -> 2 * Attempts + 2
      [] pc \in {"rs_sleep2", "cd_sleep2"} -> 2 * Attempts + 1
      [] pc \in {"rs_get", "cd_get"} -> 2 * loc.attempts
      [] pc \in {"rs_sleep1", "cd_sleep1"} -> 2 * loc.attempts - 1
      [] OTHER -> 0

C6_Bounded ==
    prog = "ctl" =>
    /\ Gets(SchemasCreated) <= Attempts
    /\ Gets(CredDefsCreated) <= Attempts
    /\ \A i \in DOMAIN log :
          (log[i].rq \in {SchemasCreated, CredDefsCreated} /\ log[i].res = "ok") =>
             /\ i = Len(log)
             /\ pc = "returned" /\ err = "none"
             /\ ret = IF log[i].rq = SchemasCreated THEN loc.listing[1]
                                                    ELSE <<loc.cd_schema_id, loc.listing[1]>>
    /\ Measure >= 0
    /\ pc # "returned" => ENABLED ControllerNext

C6_Decreases == prog = "ctl" => (Measure' < Measure \/ (pc' = pc /\ loc' = loc))

\* C6: in endorsed mode register_schema and register_cred_def send at most 3
\* GET requests to their listing, stop at the first non-empty listing and
\* return its first id, and every step of the call brings it nearer to its
\* end (a result or a failure), whatever the agent answers.
C6_DiscoveryBounded == []C6_Bounded /\ [][C6_Decreases]_vars

C6_Witness ==
    /\ prog = "ctl" /\ pc = "returned" /\ err = "none"
    /\ Gets(SchemasCreated) = Attempts
    /\ Last(log).res = "ok"
    /\ ret = loc.listing[1]

\* C7: register_schema sends no POST /schemas when the agent's listing already
\* holds an id for the schema name at the call.
C7_NoCreationWhenPresent ==
    prog \in {"setup", "ctl"} =>
    \A i \in DOMAIN log :
       (log[i].op = "register_schema" /\ log[i].rq = "POST /schemas") => ~loc.existed

InLoop(pcs) == pc \in pcs

\* C8 as stated: every polling loop other than the has_connection poll gives
\* up, so the coordinator always leaves the holder-side and the issuer-side
\* poll of exchange_credential and the two listing polls.
C8_OnlyConnectionPollUnbounded ==
    /\ InLoop({"xc_hpoll", "xc_hsleep"}) ~> ~InLoop({"xc_hpoll", "xc_hsleep"})
    /\ InLoop({"xc_ipoll", "xc_isleep"}) ~> ~InLoop({"xc_ipoll", "xc_isleep"})
    /\ InLoop({"rs_get", "rs_sleep1"}) ~> ~InLoop({"rs_get", "rs_sleep1"})
    /\ InLoop({"cd_get", "cd_sleep1"}) ~> ~InLoop({"cd_get", "cd_sleep1"})

LoopOf(e) ==
    IF e.op = "has_connection" THEN {"ec_poll", "ec_sleep"}
    ELSE IF e.c = "client" THEN {"xc_hpoll", "xc_hsleep"} ELSE {"xc_ipoll", "xc_isleep"}

\* C8 amended: the has_connection poll and the two has_credential_exchange_record
\* polls of exchange_credential never give up (an empty answer is always followed
\* by the same poll again, unless the user interrupts the run); only the two
\* listing polls are bounded, by 3 attempts.
C8_UnboundedWaits ==
    /\ \A i \in DOMAIN log :
          (log[i].op \in {"has_connection", "has_credential_exchange_record"} /\ log[i].res = "empty") =>
             IF i < Len(log)
             THEN log[i + 1].op = log[i].op /\ log[i + 1].c = log[i].c
             ELSE (pc \in LoopOf(log[i]) \/ err = "KeyboardInterrupt")
    /\ prog \in {"ctl", "ctl_main"} =>
          \A i \in DOMAIN log :
             (log[i].rq \in {SchemasCreated, CredDefsCreated} /\ i + Attempts <= Len(log)) =>
                \E j \in (i + 1)..(i + Attempts) : log[j].rq # log[i].rq

EmptyPolls(op, c) == Cardinality({i \in DOMAIN log : log[i] = Req(c, op, "GET /issue-credential-2.0/records", "empty")})

C8_Witness ==
    /\ pc = "xc_ipoll"
    /\ EmptyPolls("has_credential_exchange_record", "client") > Attempts
    /\ EmptyPolls("has_credential_exchange_record", "server") > Attempts

Stopped == {"m_close_server", "m_close_client", "terminate", "main_exit", "exit", "returned"}

IsPollReq(e) ==
    \/ e.op \in {"has_connection", "has_credential_exchange_record"}
    \/ e.rq \in {SchemasCreated, CredDefsCreated} /\ prog \in {"ctl", "ctl_main"}

\* C9: a request that fails (transport failure, or the ledger answering other
\* than 200) is the last request of the run and the run ends with that failure;
\* a poll is repeated only after an empty answer.
C9_NoRetryOnFailure ==
    \A i \in DOMAIN log :
       /\ log[i].res \in {"fail", "non200"} =>
             /\ i = Len(log)
             /\ pc \in Stopped
             /\ err = IF log[i].res = "fail" THEN "RequestFailed" ELSE "LedgerRegistrationFailed"
       /\ (i < Len(log) /\ IsPollReq(log[i]) /\ log[i + 1].op = log[i].op
             /\ log[i + 1].c = log[i].c /\ log[i + 1].rq = log[i].rq) =>
             log[i].res = "empty"

C9_Witness ==
    /\ Len(log) > 1
    /\ IsPollReq(Last(log)) /\ Last(log).res = "fail"
    /\ log[Len(log) - 1] = [Last(log) EXCEPT !.res = "empty"]
    /\ err = "RequestFailed" /\ pc \in Stopped

RegisteredDid(c) == \E i \in DOMAIN log : log[i] = Req(c, "register_did", "POST /wallet/did/public", "ok")
Before(a, b) == \E i, j \in DOMAIN steps : i < j /\ steps[i] = a /\ steps[j] = b
Started(op) == \E i \in DOMAIN steps : steps[i] = <<"start", op>>

\* C10: a session runs register_did on both controllers, then exchange_connection,
\* then register_schema_and_cred_def, then exchange_credential: exchange_connection
\* does not start before both controllers completed register_did, and
\* exchange_credential does not start before the two operations before it returned.
C10_SessionOrder ==
    /\ Started("exchange_connection") => \A c \in Ctl : RegisteredDid(c)
    /\ Started("register_schema_and_cred_def") =>
          Before(<<"return", "exchange_connection">>, <<"start", "register_schema_and_cred_def">>)
    /\ Started("exchange_credential") =>
          /\ Before(<<"return", "exchange_connection">>, <<"start", "exchange_credential">>)
          /\ Before(<<"return", "register_schema_and_cred_def">>, <<"start", "exchange_credential">>)

SameOp(a, b) == a.c = b.c /\ a.op = b.op

\* C11: the coordinator runs one operation at a time on one session at a time:
\* an operation of Setup that has started returns before the next one starts,
\* and the requests of one operation on one session (its polls included) are
\* consecutive, with no request of another operation or of the other session
\* between them.
C11_NoConcurrency ==
    prog = "setup" =>
    /\ \A i \in DOMAIN steps :
          (steps[i][1] = "start" /\ i < Len(steps)) => steps[i + 1] = <<"return", steps[i][2]>>
    /\ \A i \in DOMAIN steps :
          steps[i][1] = "return" => (i > 1 /\ steps[i - 1] = <<"start", steps[i][2]>>)
    /\ \A i, k \in DOMAIN log :
          (i < k /\ SameOp(log[i], log[k])) => \A j \in i..k : SameOp(log[j], log[i])

C11_Witness ==
    /\ prog = "setup" /\ pc = "exit" /\ err = None
    /\ Len(steps) = 6
    /\ \E i, j, k \in DOMAIN log :
          /\ i < j /\ j < k
          /\ log[i].c = "server" /\ log[j].c = "client" /\ log[k].c = "server"
          /\ log[j].op = "has_credential_exchange_record" /\ log[j].res = "empty"

\* get_did has just returned to offer_credential.
GetDidReturned == pc \in {"oc_post", "ctl_oc_post"}

\* The requests sent during the get_did call that has just returned.
SentByGetDid == SubSeq(log, loc.gd_from + 1, Len(log))

FetchDid(res) == Req(loc.self, "fetch_did", "GET /wallet/did/public", res)
RegisterDid(rq, res) == Req(loc.self, "register_did", rq, res)
RegisterDidRequests ==
    <<RegisterDid("POST /wallet/did/create", "ok"), RegisterDid("POST ledger /register", "ok"),
      RegisterDid("POST /wallet/did/public", "ok")>>

\* C12: get_did returns the cached identifier if there is one (sending nothing);
\* with an empty cache it fetches the identifier the agent announces and returns
\* it without registering; if the agent announces none it runs register_did to
\* the end. The value it returns is a present identifier, equal to the cache.
C12_GetPublicDid ==
    GetDidReturned =>
    /\ ret = <<did[loc.self]>>
    /\ did[loc.self] # NoDid
    /\ loc.gd_cached # NoDid => (ret = <<loc.gd_cached>> /\ SentByGetDid = <<>>)
    /\ (loc.gd_cached = NoDid /\ loc.gd_pub # NoDid) =>
          (ret = <<loc.gd_pub>> /\ SentByGetDid = <<FetchDid("ok")>>)
    /\ (loc.gd_cached = NoDid /\ loc.gd_pub = NoDid) =>
          (SentByGetDid = <<FetchDid("empty")>> \o RegisterDidRequests /\ agent.pub[loc.self] = did[loc.self])

\* C13: once get_did has returned an identifier X, the next get_did on the same
\* controller, with no register_did called in between, returns X again, sends
\* no request and leaves the cached identifier X.
C13_GetDidIdempotent ==
    (GetDidReturned /\ loc.gd_prev # NoDid) =>
       /\ ret = <<loc.gd_prev>>
       /\ SentByGetDid = <<>>
       /\ did[loc.self] = loc.gd_prev
       /\ loc.gd_cached = loc.gd_prev

C13_Witness ==
    /\ prog = "pkg_main" /\ GetDidReturned
    /\ loc.invoked = <<"offer_credential", "offer_credential">>
    /\ loc.gd_prev # NoDid /\ ret = <<loc.gd_prev>>
    /\ \E i \in DOMAIN log : log[i].op = "register_did"

Count(rq, res) == Cardinality({i \in DOMAIN log : log[i].rq = rq /\ log[i].res = res})

\* register_did has just returned to its caller.
RegisterDidReturned ==
    /\ pc \in {"executed", "pgd_ret"}
    /\ log # <<>> /\ Last(log) = RegisterDid("POST /wallet/did/public", "ok")

\* C14: every register_did call that succeeds has asked the agent for a new
\* identifier and submitted it to the ledger, whatever the cache held: the
\* identifiers of successive successful calls are pairwise distinct, and when
\* a call returns the cached identifier is the one it created.
C14_RegisterDidNeverIdempotent ==
    /\ \A i, j \in DOMAIN loc.rd_dids : i < j => loc.rd_dids[i] # loc.rd_dids[j]
    /\ Count("POST /wallet/did/create", "ok") >= Len(loc.rd_dids)
    /\ Count("POST ledger /register", "ok") >= Len(loc.rd_dids)
    /\ RegisterDidReturned =>
          /\ did[loc.self] = Last(loc.rd_dids)
          /\ did[loc.self] = loc.new_did
          /\ \A i \in 1..(Len(loc.rd_dids) - 1) : loc.rd_dids[i] # did[loc.self]

C14_Witness ==
    /\ pc = "executed"
    /\ loc.invoked = <<"register_did", "register_did">>
    /\ Len(loc.rd_dids) = 2
    /\ loc.rd_dids[1] # loc.rd_dids[2]
    /\ did[loc.self] = loc.rd_dids[2]

IsRq(e, rq) == e.op = "register_did" /\ e.rq = rq

\* C15: register_did sends create-keypair (agent), register (ledger), announce
\* as public (agent) in this order, each only after the one before succeeded
\* (an uninterrupted call goes on to the next after a success);
\* a ledger status other than 200 ends the call with LedgerRegistrationFailed
\* and no announce request follows.
C15_RegisterDidOrder ==
    \A i \in DOMAIN log :
       /\ IsRq(log[i], "POST ledger /register") =>
             (i > 1 /\ log[i - 1] = [log[i] EXCEPT !.rq = "POST /wallet/did/create", !.res = "ok"])
       /\ IsRq(log[i], "POST /wallet/did/public") =>
             (i > 1 /\ log[i - 1] = [log[i] EXCEPT !.rq = "POST ledger /register", !.res = "ok"])
       /\ (IsRq(log[i], "POST /wallet/did/create") /\ i > 1 /\ log[i - 1].op = "register_did") =>
             log[i - 1] = [log[i] EXCEPT !.rq = "POST /wallet/did/public", !.res = "ok"]
       /\ (IsRq(log[i], "POST /wallet/did/create") /\ log[i].res = "ok" /\ i = Len(log)) =>
             (pc = "rd_ledger" \/ err = "KeyboardInterrupt")
       /\ (IsRq(log[i], "POST ledger /register") /\ log[i].res = "non200") =>
             (i = Len(log) /\ err = "LedgerRegistrationFailed" /\ pc \in Stopped)

C15_Witness ==
    /\ Len(log) > 4
    /\ IsRq(Last(log), "POST ledger /register") /\ Last(log).res = "non200"
    /\ err = "LedgerRegistrationFailed"
    /\ Count("POST /wallet/did/public", "ok") = 1

\* admin_request has ended, with the response (status, body) the agent gave.
Answered == prog = "request" /\ pc = "returned" /\ err # "ClientError"

Is2xx(status) == status >= 200 /\ status < 300

\* C16: admin_request looks at the status first and at the body second: a
\* status outside 2xx fails with RequestFailed whatever the body; a 2xx with an
\* empty body in JSON mode returns null; a 2xx with a non-empty body that is no
\* JSON fails with DecodeFailed in JSON mode; a 2xx with a JSON body returns the
\* decoded document; in text mode a 2xx returns the body as it is.
C16_Classification ==
    Answered =>
       LET status == loc.resp_status
           body == loc.resp_text IN
       /\ ~Is2xx(status) => err = "RequestFailed"
       /\ (Is2xx(status) /\ ~loc.text /\ body = "") => (err = None /\ ret = NoId)
       /\ (Is2xx(status) /\ ~loc.text /\ body # "" /\ ~parseable(body)) => err = "DecodeFailed"
       /\ (Is2xx(status) /\ ~loc.text /\ parseable(body)) => (err = None /\ ret = json_loads(body))
       /\ (Is2xx(status) /\ loc.text) => (err = None /\ ret = <<"text", body>>)

\* C17: a call of admin_GET / admin_POST (and of admin_request under it) sends
\* exactly one HTTP request, whether it ends with a value, RequestFailed,
\* DecodeFailed or a connection error.
C17_NoRetry ==
    prog = "request" =>
       /\ Len(log) <= 1
       /\ pc = "returned" =>
             /\ Len(log) = 1
             /\ err \in {None, "RequestFailed", "DecodeFailed", "ClientError"}

C17_Witness ==
    /\ prog = "request" /\ pc = "returned"
    /\ err = "ClientError"
    /\ log = <<Req("server", "admin_POST", "POST path", "sent")>>

Exiting == {"terminate", "main_exit", "exit"}

\* C18: in interactive mode the failure of a command's operation ends only that
\* command: the command loop goes on (main is not on its way out) and the
\* network session stays open.
C18_FailureAbortsOnlyCommand ==
    (prog \in Mains /\ loc.interactive /\ loc.invoked # <<>> /\ err \notin {None, "ValueError"}) =>
       /\ pc \notin Exiting
       /\ sess["server"]

\* The command names no registered operation: a number that is no index of the
\* command table, or a string that is no registered name.
NotRegistered(command) ==
    \/ is_decimal(command) /\ int(command) >= Len(loc.commands)
    \/ ~is_decimal(command) /\ command \notin Range(loc.commands)

\* A step of execute (not one of the agents) on such a command.
ExecuteRejects ==
    (pc = "execute" /\ NotRegistered(loc.command) /\ agent' = agent) =>
       /\ log' = log
       /\ loc'.invoked = loc.invoked
       /\ loc'.commands = loc.commands
       /\ err' = None
       /\ sess' = sess
       /\ pc' = after_execute

\* C19: execute of a name that is not registered, or of a number that is no
\* index of the command table, invokes no operation, sends no request, leaves
\* the command table as it is and returns without failure to main, which (in
\* interactive mode) goes on to the next prompt.
C19_UnknownCommand == [][ExecuteRejects]_vars

\* The command names a registered operation.
Registered(command) ==
    \/ is_decimal(command) /\ int(command) < Len(loc.commands)
    \/ ~isdigit(command) /\ command \in Range(loc.commands)

ExecutePropagates ==
    /\ (pc = "execute" /\ Registered(loc.command) /\ agent' = agent) =>
          (loc'.invoked = Append(loc.invoked, lookup(loc.command, loc.commands)) /\ err' = None)
    /\ (pc # "execute" /\ prog \in Mains) => loc'.invoked = loc.invoked
    /\ (prog \in Mains /\ stack # <<>> /\ err' # None) => (pc' = "terminate" /\ stack' = <<>>)
    /\ (pc = "executed" /\ agent' = agent) => (ret' = ret /\ err' = err)

\* C20: execute of a registered command invokes the operation once, and what
\* the operation returns or raises is what execute returns or raises to main.
C20_InvokeOncePropagate == [][ExecutePropagates]_vars

\* A step of execute (not one of the agents) on the decimal string of an index
\* of the command table, or on the name registered at that index, starts the
\* operation registered at that index.
ExecuteByIndex ==
    (pc = "execute" /\ agent' = agent) =>
       \A i \in 0..(Len(loc.commands) - 1) :
          (loc.command = decimal(i) \/ loc.command = loc.commands[i + 1]) =>
             /\ loc'.invoked = Append(loc.invoked, loc.commands[i + 1])
             /\ pc' = Head(entry(loc.commands[i + 1]))
             /\ stack' = Tail(entry(loc.commands[i + 1])) \o <<"executed">>

C22_SessionsClosed ==
    (prog \in {"setup"} \cup Mains /\ pc = "exit") => \A c \in Ctl : ~sess[c]

C22_Witness ==
    /\ prog = "setup" /\ pc = "exit" /\ err = "KeyboardInterrupt"
    /\ Len(log) > 0
    /\ Last(log) = Req("client", "has_credential_exchange_record", "GET /issue-credential-2.0/records", "empty")
    /\ \A c \in Ctl : ~sess[c]

\* register_schema runs inside register_schema_and_cred_def.
SchemaStep == stack # <<>> /\ Head(stack) \in {"prscd_mid", "rscd_mid"}

IsCredDefRq(e) == e.op = "register_cred_def"

C23_Composed ==
    prog \in {"setup", "rscd"} =>
       /\ SchemaStep =>
             /\ loc.rs_name = loc.schema_name
             /\ loc.rs_attrs = loc.schema_attrs
             /\ loc.rs_version = loc.version
       /\ \A i \in DOMAIN log :
             IsCredDefRq(log[i]) =>
                /\ \E j \in 1..(i - 1) : log[j].op = "register_schema" /\ log[j].res = "ok"
                /\ \A j \in 1..(i - 1) : log[j].op = "register_schema" => log[j].res # "fail"
                /\ loc.cd_name = loc.schema_name /\ loc.cd_tag = loc.tag

\* The step between the two calls hands the id register_schema returned to
\* register_cred_def, and the pair register_cred_def returns holds that id.
C23_Handover ==
    /\ (pc \in {"prscd_mid", "rscd_mid"} /\ agent' = agent) =>
          (loc'.cd_schema_id = ret /\ loc'.cd_tag = loc.tag /\ loc'.cd_name = loc.schema_name)
    /\ (prog \in {"setup", "rscd"} /\ pc \in {"pcd_post", "cd_sleep2", "cd_sleep1"}
        /\ pc' \in {"m_preview", "returned"} /\ err' = None) =>
          (Len(ret') = 2 /\ ret'[1] = loc.cd_schema_id)

\* C23: register_schema_and_cred_def registers the schema with exactly the
\* caller's name, attribute list and version (each in its own parameter), then
\* registers the credential definition with the schema id register_schema
\* returned and the caller's tag, and returns that (schema_id, cred_def_id);
\* register_cred_def is not started if register_schema fails.
C23_RegisterSchemaAndCredDef == []C23_Composed /\ [][C23_Handover]_vars

SendOffer == "POST /issue-credential-2.0/send-offer"

\* The thread id in use at each later position of exchange_credential is the
\* one the agent gave in its answer to the offer.
C24_ThreadId ==
    prog = "setup" =>
       /\ Count(SendOffer, "ok") + Count(SendOffer, "fail") <= 1
       /\ pc \in {"xc_hpoll", "xc_hsleep", "xc_ipoll", "xc_isleep"} => loc.thread_id = ThreadId
       /\ pc \in {"rc_has", "rc_get", "rc_post", "ic_has", "ic_get", "ic_post"} =>
             loc.cx_thread_id = ThreadId

\* offer_credential ends without failure: one request was sent and the pair of
\* the answer is returned.
C24_Offer ==
    (pc \in {"oc_post", "ctl_oc_post"} /\ pc' # pc /\ err' = None) =>
       /\ log' = Append(log, Req(loc.self, "offer_credential", SendOffer, "ok"))
       /\ ret' = <<"IX1", ThreadId>>

\* C24: offer_credential sends exactly one send-offer request and returns the
\* pair (cred_ex_id, thread_id) of its response; the thread_id exchange_credential
\* uses in every later poll and in request_credential and issue_credential is
\* that returned thread_id, on the holder's and on the issuer's side.
C24_OfferCredential == []C24_ThreadId /\ [][C24_Offer]_vars

\* The requests of a register_schema call whose creation answer lacks schema_id
\* and whose listing answers empty, empty, and then a non-empty list.
ThirdPollAnswers ==
    <<Req("server", "register_schema", "POST /schemas", "ok"),
      Req("server", "register_schema", SchemasCreated, "empty"),
      Req("server", "register_schema", SchemasCreated, "empty"),
      Req("server", "register_schema", SchemasCreated, "ok")>>

\* C25 as stated: when the creation response lacks schema_id and the
\* created-schemas listing answers empty, empty, then a non-empty list on three
\* successive polls, register_schema sleeps exactly twice during the call and
\* then returns the first id of the third answer.
C25_SleepsTwice ==
    (prog = "ctl" /\ pc = "returned" /\ err = None /\ log = ThirdPollAnswers) =>
       /\ loc.sleeps = 2
       /\ ret = loc.listing[1]

\* C25 amended: in that run register_schema sleeps three times, once after the
\* creation request and once after each of the two empty answers, and then
\* returns the first id of the third answer.
C25_SleepsThrice ==
    (prog = "ctl" /\ pc = "returned" /\ err = None /\ log = ThirdPollAnswers) =>
       /\ loc.sleeps = 3
       /\ ret = loc.listing[1]

C25_Witness ==
    /\ prog = "ctl" /\ pc = "returned" /\ err = None
    /\ log = ThirdPollAnswers
    /\ ret = <<loc.rs_name, loc.rs_version>>

\* The programs that call register_schema at most once.
OneSchemaCall == {"ctl", "rscd", "setup"}

IsSchemaRq(e) == e.op = "register_schema"
IsCreated(e) == e.op = "register_schema" /\ e.rq = "POST /schemas" /\ e.res = "ok"

\* C26 as stated: in direct mode the creation request is the only request of
\* register_schema, with no listing poll before or after it.
C26_NoOtherCall ==
    (prog \in OneSchemaCall /\ agent.mode = "direct" /\ \E i \in DOMAIN log : IsCreated(log[i])) =>
       \A j \in DOMAIN log : IsSchemaRq(log[j]) => log[j].rq = "POST /schemas"

C26_Calls ==
    (prog \in OneSchemaCall /\ agent.mode = "direct") =>
       \A i \in DOMAIN log :
          IsCreated(log[i]) =>
             \A j \in DOMAIN log :
                (j # i /\ IsSchemaRq(log[j])) =>
                   /\ prog = "setup"
                   /\ j = i - 1
                   /\ log[j] = Req(log[i].c, "register_schema", SchemasCreated, "empty")

C26_Returns ==
    /\ (pc = "rs_sleep2" /\ loc.response # NoId /\ pc' # pc /\ err' = None) =>
          (ret' = loc.response /\ log' = log)
    /\ (pc = "prs_post" /\ agent.mode = "direct" /\ pc' # pc /\ err' = None) =>
          (ret' = <<loc.rs_name, loc.rs_version>> /\ IsCreated(Last(log')))

\* C26 amended: in direct mode register_schema returns exactly the id of the
\* creation response and sends nothing after the creation request; the
\* controller of controller/controller.py sends nothing before it either, and
\* the packaged controller sends exactly one request before it, the existence
\* check GET /schemas/created, which was answered with no schema.
C26_DirectMode == []C26_Calls /\ [][C26_Returns]_vars

C26_Witness ==
    /\ prog = "setup" /\ agent.mode = "direct"
    /\ pc = "prscd_mid"
    /\ ret = <<loc.schema_name, "1.0">>
    /\ Len(log) >= 2
    /\ IsCreated(Last(log))
    /\ log[Len(log) - 1] = Req("server", "register_schema", SchemasCreated, "empty")

\* The characters of a text without its spaces.
stripped(chars) == SelectSeq(chars, LAMBDA ch : ch # " ")

\* The credential definition that the request in flight has asked the agent for.
Asked(a) == Range(a.creddefs) \cup a.pendingcd

CredDefSent ==
    /\ pc \in {"cd_post", "pcd_post"}
    /\ log' # log
    /\ Last(log') = Req(loc.self, "register_cred_def", "POST /credential-definitions", "ok")

\* C27 as stated: without a tag, the tag sent to the agent is the issuer identity,
\* a dot, and the schema name with every space removed; a supplied non-empty tag
\* is sent as it is.
C27_TagStripped ==
    [][CredDefSent =>
          <<loc.cd_schema_id,
            IF loc.cd_tag = None
            THEN join(Chars(loc.self) \o <<".">> \o stripped(Chars(loc.cd_name)))
            ELSE loc.cd_tag>> \in Asked(agent')]_vars

\* C27 amended: without a tag, the tag sent to the agent is the issuer identity,
\* a dot, and the schema name, with every space of that text replaced by an
\* underscore; a supplied non-empty tag is sent as it is.
C27_TagUnderscored ==
    [][CredDefSent =>
          <<loc.cd_schema_id,
            IF loc.cd_tag = None
            THEN join(replace(Chars(loc.self) \o <<".">> \o Chars(loc.cd_name), " ", "_"))
            ELSE loc.cd_tag>> \in Asked(agent')]_vars

C27_Witness ==
    /\ prog = "ctl" /\ pc = "returned" /\ err = None
    /\ loc.cd_tag = None /\ loc.cd_name = "my schema"
    /\ ret = <<loc.cd_schema_id, <<loc.cd_schema_id, "server.my_schema">> >>

OfferSent ==
    /\ pc \in {"oc_post", "ctl_oc_post"}
    /\ log' # log
    /\ Last(log') = Req(loc.self, "offer_credential", SendOffer, "ok")

\* The last two colon-separated segments of a text, found by scanning it from
\* its end.
RECURSIVE LastSegment(_)
LastSegment(chars) ==
    IF chars = <<>> \/ Last(chars) = ":"
    THEN <<>>
    ELSE Append(LastSegment(SubSeq(chars, 1, Len(chars) - 1)), Last(chars))

BeforeLastSegment(chars) == SubSeq(chars, 1, Len(chars) - Len(LastSegment(chars)) - 1)

Colons(chars) == Cardinality({i \in DOMAIN chars : chars[i] = ":"})

\* C28: for a schema_id of at least two colon-separated segments, the filter of
\* the offer holds the second-to-last segment as schema_name and the last as
\* schema_version, the session's public identifier as issuer_did, and as
\* schema_issuer_did the supplied value or, with none supplied, that same
\* public identifier.
C28_OfferFilter ==
    [][(OfferSent /\ Colons(loc.oc_schema_id) >= 1) =>
          /\ loc'.filter.schema_version = join(LastSegment(loc.oc_schema_id))
          /\ loc'.filter.schema_name = join(LastSegment(BeforeLastSegment(loc.oc_schema_id)))
          /\ did[loc.self] # NoDid
          /\ loc'.filter.issuer_did = did[loc.self]
          /\ loc'.filter.schema_issuer_did =
                IF loc.oc_issuer # NoDid THEN loc.oc_issuer ELSE did[loc.self]]_vars

\* C29: a cached identifier is one that has been announced to the agent as
\* public; this holds in every state outside the announce request itself, and
\* also after a register_did whose announce request failed.
C29_CachedIsPublic ==
    \A c \in Ctl :
       (did[c] # NoDid /\ ~(pc = "rd_public" /\ loc.self = c)) => did[c] = agent.pub[c]

\* register_schema returns to its caller.
SchemaReturned ==
    /\ pc \in {"prs_get", "prs_post", "rs_sleep2", "rs_get", "rs_sleep1"}
    /\ stack # <<>> /\ pc' = Head(stack) /\ stack' = Tail(stack)
    /\ err' = None

\* C30: the id that register_schema returns identifies a schema with the
\* requested name and the requested version; a schema already present is
\* reused only if its name and version are the requested ones.
C30_ReturnsRequested ==
    [][SchemaReturned => ret' = <<loc.rs_name, loc.rs_version>>]_vars

AcceptLookup == Req("server", "accept_connection_request", "GET /connections", "empty")
AcceptRequest == Req("server", "accept_connection_request", "POST /connections/{id}/accept-request", "ok")

C31_Found ==
    /\ \A i \in DOMAIN log : log[i] # AcceptLookup
    /\ pc \in {"ac_get", "ac_post"} => err = None
    /\ pc = "ac_post" =>
          /\ Connections(agent, loc.client_connection_did) # <<>>
          /\ loc.connection_id = Connections(agent, loc.client_connection_did)[1]

C31_Accepts ==
    (pc = "ac_post" /\ log' # log /\ Last(log') = AcceptRequest) =>
       ret'[1] = Connections(agent, loc.client_connection_did)[1]

\* C31: the issuer agent keeps listing a connection once it has listed it, and
\* so accept_connection_request, called after the successful poll, always
\* finds a connection for the peer DID, sends accept-request for the
\* connection id of the first match, and never fails on an empty list.
C31_AcceptAfterPoll == []C31_Found /\ [][C31_Accepts]_vars

C31_Witness ==
    /\ prog = "setup" /\ pc = "m_rscd" /\ err = None
    /\ Last(log) = AcceptRequest
    /\ log[Len(log) - 1] = Req("server", "accept_connection_request", "GET /connections", "ok")
    /\ ret[1] = ServerConnId

PolledTrue == \E i \in DOMAIN log : log[i] = Req("server", "has_connection", "GET /connections", "ok")
Polling == prog = "setup" /\ pc \in {"ec_poll", "ec_sleep"}
Stops == err \in {"RequestFailed", "KeyboardInterrupt"}

\* exchange_connection has returned: the step that records the answer to the
\* accept-request is the step that returns.
ExchangeConnectionReturned == prog = "setup" /\ \E i \in DOMAIN log : log[i] = AcceptRequest

C32_Unseen ==
    /\ (\E i \in DOMAIN log : log[i].op = "accept_connection_request") => PolledTrue
    /\ (prog = "setup" /\ PolledTrue) => ~Polling
    /\ (prog = "setup" /\ Len(ConnLog) >= 3 /\ ConnLog[3].res = "ok" /\ ~PolledTrue) =>
          (Polling \/ Stops)

\* C32: once the issuer agent has answered has_connection with a connection,
\* exchange_connection returns unless a request fails or the run is interrupted;
\* until the agent does so, exchange_connection goes on polling (each sleep is
\* followed by the next poll) and sends nothing for accept_connection_request.
C32_ExchangeConnection ==
    /\ (prog = "setup" /\ PolledTrue) ~> (ExchangeConnectionReturned \/ Stops)
    /\ (prog = "setup" /\ pc = "ec_sleep") ~> (pc = "ec_poll" \/ Stops)
    /\ (prog = "setup" /\ pc = "ec_poll") ~> (pc \in {"ec_sleep", "ac_get"} \/ Stops)
    /\ []C32_Unseen

C32_Witness ==
    /\ ExchangeConnectionReturned
    /\ pc = "m_rscd"
    /\ Cardinality({i \in DOMAIN log : log[i] = Req("server", "has_connection", "GET /connections", "empty")}) >= 2

Offered == prog = "setup" /\ \E i \in DOMAIN log : log[i] = Req("server", "offer_credential", SendOffer, "ok")
Requested == \E i \in DOMAIN log : log[i] = SendRequestOk
Issued == \E i \in DOMAIN log : log[i] = IssueOk

\* An agent has answered by itself: the holder agent has left offer-received
\* without a request of the holder, or the issuer agent has left
\* request-received without an issue request of the issuer.
AgentAnswered ==
    \/ agent.hrec = "request-sent" /\ ~Requested
    \/ agent.irec = "credential-issued" /\ ~Issued

ExchangeCredentialReturned == \E i \in DOMAIN steps : steps[i] = <<"return", "exchange_credential">>

C33_Safe ==
    prog = "setup" =>
       /\ err \in {"RecordNotFound", "IndexError"} => AgentAnswered
       /\ Cardinality({i \in DOMAIN log : log[i] = IssueOk}) <= 1
       /\ ExchangeCredentialReturned => (Requested /\ Issued)

C34_Started ==
    (prog = "setup" /\ pc = "xc_hpoll" /\ pc' = "rc_has") =>
       Records(agent, "client", loc.thread_id, "offer-received") # <<>>

C34_NotRefused ==
    prog = "setup" =>
       \A i \in DOMAIN log :
          log[i] # Req("client", "request_credential", "GET /issue-credential-2.0/records", "empty")

\* C34: exchange_credential starts the holder's request_credential only when
\* the holder agent holds the record of the thread in state offer-received,
\* and so the existence check of request_credential is never answered with
\* no record (RecordNotFound).
C34_RequestFindsOffer == []C34_NotRefused /\ [][C34_Started]_vars

\* C35: a register_did that fails leaves the cached identifier as it was: the
\* create-keypair request, failed or not, does not touch the cache, and neither
\* does a ledger request that fails or is answered with a status other than 200.
C35_FailedRegisterDid ==
    [][/\ pc = "rd_create" => did' = did
       /\ (pc = "rd_ledger" /\ err' # None) => did' = did]_vars

C35_Witness ==
    /\ err = "LedgerRegistrationFailed"
    /\ Last(log) = Req(loc.self, "register_did", "POST ledger /register", "non200")
    /\ did[loc.self] # NoDid
    /\ did[loc.self] # loc.new_did

\* register_schema leaves the endorser wait with an id taken from the listing.
EndorsedSchemaReturned ==
    /\ pc \in {"rs_get", "rs_sleep1"}
    /\ agent.mode = "endorsed"
    /\ stack # <<>> /\ pc' = Head(stack) /\ stack' = Tail(stack)
    /\ err' = None

\* C36: in endorsed mode the id that register_schema returns belongs to the
\* schema created by this call: its name is the requested schema_name, also
\* when the listing of created schemas already holds ids of earlier schemas.
C36_ReturnsCreated ==
    [][EndorsedSchemaReturned => ret'[1] = loc.rs_name]_vars

\* register_cred_def leaves the endorser wait with an id taken from the listing.
EndorsedCredDefReturned ==
    /\ pc \in {"cd_get", "cd_sleep1"}
    /\ agent.mode = "endorsed"
    /\ stack # <<>> /\ pc' = Head(stack) /\ stack' = Tail(stack)
    /\ err' = None

\* C37: in endorsed mode the credential definition id that register_cred_def
\* returns belongs to the supplied schema_id and to the tag sent in this call,
\* also when the listing of created credential definitions already holds ids
\* of earlier registrations.
C37_ReturnsCreated ==
    [][EndorsedCredDefReturned =>
         ret'[2] = <<loc.cd_schema_id, cred_def_tag(loc.cd_tag, loc.self, loc.cd_name)>>]_vars

\* C38: a run of main whose command has completed without failure, and whose
\* network session has been closed, does not end in the forced failure exit
\* (exit status 1).
C38_SuccessfulExit ==
    (prog \in Mains /\ pc = "exit" /\ loc.invoked # <<>> /\ err = None /\ ~sess["server"])
    => loc.status # "exit 1"
====
